---------------------------- MODULE Spec2Model ----------------------------
(***************************************************************************)
(* Model of the Sonos router of ssg-media-slideshow-hub                    *)
(* (src/src/backend/api/v1/sonos/sonos-router.js, first module of the      *)
(* file, lines 1-568): the device registry (ensureManager), the artwork    *)
(* cache (cacheArtwork), the group listing (buildGroups) and the transport *)
(* and volume endpoints.                                                   *)
(*                                                                         *)
(* Node runs the handlers on one thread: a handler runs without            *)
(* interruption from one await to the next.  Each action below is the      *)
(* resumption of one request at one await: it draws the outcome of the     *)
(* awaited call and runs the code up to the next await.                    *)
(***************************************************************************)
EXTENDS Integers, Sequences, FiniteSets, TLC

VARIABLES
    now,            \* Date.now(), in ms
    manager,        \* module variable `manager`: 0 (null) or an index of heap
    lastDiscover,   \* module variable `lastDiscover`
    heap,           \* the SonosManager objects created so far
    files,          \* the files of ARTWORK_CACHE_DIR (hash names)
    req,            \* the requests being served: locals and position
    passes          \* number of InitializeWithDiscovery calls issued so far

vars == <<now, manager, lastDiscover, heap, files, req, passes>>

----------------------------------------------------------------------------
(* Bounds of the model *)

MaxTicks == 2        \* the clock advances at most this many times
MaxPasses == 2       \* at most this many discovery passes are started

(* Program constants *)

FreshWindow == 60000     \* ensureManager: now - lastDiscover < 60_000

\* Date.now() at start-up: any time later than FreshWindow after the epoch
StartMs == 2 * FreshWindow

\* one step of the clock: half the freshness window
TickMs == FreshWindow \div 2

Req == {"r1", "r2"}

\* a single client, whose requests follow one another
Serial == {"r1"}

----------------------------------------------------------------------------
(* Devices on the LAN *)

D1 == [Uuid |-> "RINCON_A", Host |-> "10.0.0.1"]
D2 == [Uuid |-> "RINCON_B", Host |-> "10.0.0.2"]
Devs == {D1, D2}
Hosts == {d.Host : d \in Devs}
DevOfHost(h) == CHOOSE d \in Devs : d.Host = h

\* what a discovery pass can find, in the order found
HostLists == {<< >>, <<D1.Host>>, <<D1.Host, D2.Host>>}

----------------------------------------------------------------------------
(* Artwork references *)

\* A reference is null, an absolute http(s) URL, a string that does not start
\* with "http" (a relative path), or a path under /runtime/cache/artwork.
\* `path` is the decoded text after the host; `enc` is how the raw string
\* writes it: "plain", with "&amp;" entities ("amp"), percent-encoded ("pct"),
\* or with a malformed percent escape ("bad").
ArtNull == [t |-> "null", host |-> "", path |-> "", enc |-> ""]
Http(host, path, enc) == [t |-> "http", host |-> host, path |-> path, enc |-> enc]
Rel(path) == [t |-> "rel", host |-> "", path |-> path, enc |-> "plain"]
\* `/runtime/cache/artwork/${hash}.jpg`
Local(hash) == [t |-> "local", host |-> hash[1], path |-> hash[2], enc |-> "plain"]
\* "/runtime/cache/artwork/tunein-default.jpg"
Placeholder == [t |-> "local", host |-> "", path |-> "tunein-default", enc |-> "plain"]

\* uri.startsWith("http")
StartsWithHttp(u) == u.t = "http"

\* decodeURIComponent(uri.replace(/&amp;/g, "&")...) ; throws on a malformed escape
CanDecode(u) == u.enc # "bad"
CleanUri(u) == [u EXCEPT !.enc = "plain"]

\* md5 of the clean URI, taken as free of collisions
Md5(u) == <<u.host, u.path>>

\* the arguments cacheArtwork is called with
ArtInputs ==
    {ArtNull, Rel("/getaa?s=1&u=x"), Placeholder,
     Http("cdn", "/a.jpg?s=1&t=2", "plain"), Http("cdn", "/a.jpg?s=1&t=2", "amp"),
     Http("cdn", "/b c.jpg", "pct"), Http("cdn", "/b c.jpg", "bad")}

----------------------------------------------------------------------------
(* Track URIs *)

\* A URI is the sequence of its pieces, so that String.includes is a search
\* for a run of pieces.
U_Empty == << >>
U_Queue == <<"x-file-cifs://", "nas/music/song.mp3">>
U_Spotify == <<"x-sonos-", "spotify", ":", "spotify", ":track:", "4uLU6hMC", "?sid=9">>
U_Radio == <<"x-rincon-", "mp3radio", "://", "stream.example/live">>
U_Aac == <<"aac://", "stream.example/live.aac">>

\* String.prototype.includes
Includes(u, p) ==
    \E i \in 0..(Len(u) - Len(p)) : SubSeq(u, i + 1, i + Len(p)) = p

\* the text of a URI
RECURSIVE Text(_)
Text(u) == IF u = << >> THEN "" ELSE Head(u) \o Text(Tail(u))

\* pieces that are no run of letters and digits
Punctuation == {"x-sonos-", "x-rincon-", ":", "://", ":track:", "?sid=9", "aac://",
                "x-file-cifs://"}

\* line 264: track.uri.match(/spotify:track:([A-Za-z0-9]+)/)?.[1], "" for no match
SpotifyId(u) ==
    IF \E i \in 1..(Len(u) - 2) :
           u[i] = "spotify" /\ u[i + 1] = ":track:" /\ u[i + 2] \notin Punctuation
    THEN LET i == CHOOSE i \in 1..(Len(u) - 2) :
                      /\ u[i] = "spotify" /\ u[i + 1] = ":track:"
                      /\ u[i + 2] \notin Punctuation
                      /\ \A j \in 1..(i - 1) :
                             ~(u[j] = "spotify" /\ u[j + 1] = ":track:"
                               /\ u[j + 2] \notin Punctuation)
         IN  u[i + 2]
    ELSE ""

----------------------------------------------------------------------------
(* Track metadata *)

\* TrackMetaData and CurrentURIMetaData as the devices send them: absent (or
\* no string), a string without "<DIDL-Lite", a DIDL-Lite document that does
\* not parse ("bad"), or a DIDL-Lite document with the elements of its item.
Doc(k, stream, title, creator, album, art) ==
    [k |-> k, stream |-> stream, title |-> title, creator |-> creator,
     album |-> album, art |-> art]
DocAbsent == Doc("absent", "", "", "", "", ArtNull)
DocText == Doc("text", "", "", "", "", ArtNull)
DocBad == Doc("bad", "", "", "", "", ArtNull)
Didl(stream, title, creator, album, art) == Doc("didl", stream, title, creator, album, art)

\* parseTrackMeta returns {} ...
NoMeta == [empty |-> TRUE, title |-> "", artist |-> "", album |-> "", artwork |-> ArtNull]

\* lines 95-97: a reference that does not start with "http" is put on the host
Absolute(a, host) ==
    IF a.t # "null" /\ ~StartsWithHttp(a)
    THEN Http(host \o ":1400", a.path, a.enc)
    ELSE a

\* parseTrackMeta(xml, host), lines 66-104
ParseTrackMeta(doc, host) ==
    IF doc.k \in {"absent", "text", "bad"} THEN NoMeta
    ELSE [empty |-> FALSE,
          title |-> IF doc.stream # "" THEN doc.stream ELSE doc.title,
          artist |-> doc.creator,
          album |-> doc.album,
          artwork |-> Absolute(doc.art, host)]

\* line 220
EmptyTrack ==
    [title |-> "", artist |-> "", album |-> "", source |-> "", uri |-> U_Empty,
     artwork |-> ArtNull]

\* a value that is not null, undefined or ""
HasArt(a) == a.t # "null"

----------------------------------------------------------------------------
(* What the devices answer *)

Threw == [ok |-> FALSE]

\* GetZoneGroupState: the zone groups of the household
Member(d) == [ZoneName |-> d.Uuid, Location |-> [host |-> d.Host, path |-> "/xml/device_description.xml"], UUID |-> d.Uuid]
ZoneGroup(c, ms) == [Coordinator |-> c.Uuid, ZoneGroupMember |-> ms]
Topologies ==
    {<<ZoneGroup(D1, <<Member(D1), Member(D2)>>)>>,
     <<ZoneGroup(D2, <<Member(D2)>>), ZoneGroup(D1, <<Member(D1)>>)>>}

\* GetPositionInfo of a coordinator
PositionReplies(d) ==
    IF d = D1
    THEN {[TrackURI |-> U_Queue,
           TrackMetaData |-> Didl("", "Foo", "Bar", "Baz", Rel("/getaa?s=1&u=x"))],
          [TrackURI |-> U_Spotify, TrackMetaData |-> DocAbsent],
          [TrackURI |-> U_Radio,
           TrackMetaData |-> Didl("Now Playing", "stream", "", "", ArtNull)],
          [TrackURI |-> U_Aac,
           TrackMetaData |-> Didl("", "Station", "", "", Http("cdn", "/logo.png?a=1&b=2", "amp"))]}
    ELSE {[TrackURI |-> U_Queue,
           TrackMetaData |-> Didl("", "Foo", "", "", Http("cdn", "/b c.jpg", "bad"))]}

\* GetTransportInfo: CurrentTransportState, "" when the reply has none
TransportStates == {"PLAYING", ""}

\* String.prototype.toLowerCase on the transport states of AVTransport
ToLowerCase(st) ==
    CASE st = "PLAYING" -> "playing"
      [] st = "PAUSED_PLAYBACK" -> "paused_playback"
      [] st = "STOPPED" -> "stopped"
      [] st = "TRANSITIONING" -> "transitioning"
      [] OTHER -> st

\* GetMediaInfo of a coordinator
MediaReplies(d) ==
    IF d = D1
    THEN {[CurrentURIMetaData |-> DocAbsent, EnqueuedTransportURIMetaData |-> DocAbsent],
          [CurrentURIMetaData |-> Didl("", "Media Title", "", "", Http("cdn", "/a.jpg?s=1&t=2", "plain")),
           EnqueuedTransportURIMetaData |-> DocAbsent],
          [CurrentURIMetaData |-> DocAbsent,
           EnqueuedTransportURIMetaData |-> Didl("", "Queued Title", "", "", ArtNull)]}
    ELSE {[CurrentURIMetaData |-> DocText, EnqueuedTransportURIMetaData |-> DocAbsent]}

\* the oEmbed document of open.spotify.com: thumbnail_url and title (the title
\* in two parts, its text and what follows)
OembedReplies ==
    {[thumbnail_url |-> Http("i.scdn.co", "/image/ab67", "plain"),
      title |-> <<"Song", " - topic">>],
     [thumbnail_url |-> ArtNull, title |-> << >>]}

\* the DIDL-Lite item of the raw GetMediaInfo reply of step 2E, or none
StreamReplies ==
    {DocText,
     Didl("", "Radio One", "", "", ArtNull),
     Didl("", "Radio One", "DJ", "", Rel("/getaa?s=1&u=x"))}

\* GetVolume: CurrentVolume
Volumes == {25, 100}

----------------------------------------------------------------------------
(* Requests *)

\* the stages of buildGroups for one group: 2A position and transport, 2B
\* media info, 2C placeholder, 2D oEmbed, 2E stream metadata, 2G artwork cache
Stages == {"2A", "2B", "2C", "2D", "2E", "2G"}
NoStage == [out |-> "none", reply |-> Threw, track |-> EmptyTrack, state |-> "unknown"]

\* the calls a request issues to devices and services, by kind
IoKinds == {"topology", "position", "transport", "media", "oembed", "stream",
            "getVolume", "setVolume", "memberPosition"}

NoResp == [status |-> "none", msg |-> ""]
OkResp == [status |-> "ok", msg |-> ""]
ErrResp(m) == [status |-> "error", msg |-> m]
\* a rejected promise nobody catches: the handler sends no response
Unhandled(m) == [status |-> "unhandled", msg |-> m]

IdleReq ==
    [pc |-> "idle", kind |-> "none",
     force |-> FALSE, enow |-> 0, own |-> 0, todo |-> << >>, target |-> 0,
     mgr |-> 0,
     resp |-> NoResp,
     \* cacheArtwork: its argument, `hash`, its result; and its history: the
     \* fetches it issued, whether it wrote the file, who had returned before
     cUri |-> [t |-> "null", host |-> "", path |-> "", enc |-> ""],
     cHash |-> << >>,
     cRet |-> [t |-> "null", host |-> "", path |-> "", enc |-> ""],
     fetched |-> 0, wrote |-> FALSE, prior |-> {},
     \* transport and volume endpoints: groupId, the coordinator, the caught
     \* error, the position in the device loop; and the history of the
     \* actions invoked: Play attempts, devices rebound, the retry's error
     groupId |-> "", coord |-> "", err |-> "", di |-> 0,
     plays |-> 0, others |-> 0, rebound |-> << >>, known |-> << >>,
     err2 |-> "",
     \* buildGroups: whether it is running, its `mgr`, the device asked for the
     \* topology, the map `groups`, the group in hand with its coordinator's
     \* host, its position reply, `track`, `state`, `members`, `vols`, `results`
     inBuild |-> FALSE, gmgr |-> 0, ti |-> 0, groups |-> << >>, gi |-> 0,
     chost |-> "", pos |-> [ok |-> FALSE], track |-> EmptyTrack, state |-> "",
     members |-> << >>, mi |-> 0, vols |-> << >>, results |-> << >>,
     \* history of the listing: the calls issued to devices and services, and
     \* the coordinators a query was issued for
     io |-> [k \in IoKinds |-> 0], queried |-> {},
     \* the hosts asked for the topology, in the order asked, and the place in
     \* `mgr.Devices` of the device whose reply held a ZoneGroupState (0: none)
     asked |-> << >>, got |-> 0,
     \* the stages the group in hand has been through: how each ended, what
     \* it was answered, and `track` and `state` after it
     trail |-> [st \in Stages |-> NoStage],
     \* src/sonosplayer.js: `meta`, the hosts of the members asked for their
     \* position info, and the place of the member whose metadata was taken
     meta |-> NoMeta, masked |-> << >>, mfound |-> 0,
     \* /volume: `level`, its `mgr`, the members of `group`, `vols`, the volume
     \* of the response
     level |-> [k |-> "undefined", n |-> 0], vmgr |-> 0, gmembers |-> << >>,
     rvols |-> << >>, volume |-> 0,

     \* history of the ensureManager call: what it saw on entry, what it started
     eMgr |-> 0, eLast |-> 0, ePasses |-> 0, overlap |-> FALSE, started |-> 0,
     \* history of the pass the call started: the hosts it registered, and on
     \* its completion the hosts of `manager.Devices` and the passes started
     shaken |-> {}, final |-> << >>, fPasses |-> 0]

Init ==
    /\ now = StartMs
    /\ manager = 0
    /\ lastDiscover = 0
    /\ heap = << >>
    /\ files = {}
    /\ req = [r \in Req |-> IdleReq]
    /\ passes = 0

Set(r, rq) == req' = [req EXCEPT ![r] = rq]

\* a discovery pass or its handshakes are in flight for request r
InFlight(r) == req[r].pc \in {"discovering", "handshake"}

----------------------------------------------------------------------------
(* The clock *)

Tick ==
    /\ now + TickMs <= StartMs + MaxTicks * TickMs
    /\ now' = now + TickMs
    /\ UNCHANGED <<manager, lastDiscover, heap, files, req, passes>>

----------------------------------------------------------------------------
(* ensureManager(force) *)

\* the comparison of line 115 turned round
FreshInverted(force, mgr, t, last) == ~force /\ mgr # 0 /\ t - last > FreshWindow

\* the comparison of line 115 with the bound included
FreshInclusive(force, mgr, t, last) == ~force /\ mgr # 0 /\ t - last <= FreshWindow

\* ensureManager line 115: the cache is served
Fresh(force, mgr, t, last) == ~force /\ mgr # 0 /\ t - last < FreshWindow

NewManager == [Devices |-> << >>, built |-> FALSE]

\* ensureManager lines 113-121: from the call to the first await
EnsureEnter(r, rq, force) ==
    LET e == [rq EXCEPT !.force = force, !.enow = now,
                        !.eMgr = manager, !.eLast = lastDiscover,
                        !.ePasses = passes,
                        !.overlap = \E q \in Req \ {r} : InFlight(q)]
    IN  IF Fresh(force, manager, now, lastDiscover)
        THEN /\ Set(r, [e EXCEPT !.pc = "ensured", !.mgr = manager])
             /\ UNCHANGED <<manager, heap, passes>>
        ELSE /\ passes < MaxPasses
             /\ heap' = Append(heap, NewManager)
             /\ manager' = Len(heap) + 1
             /\ passes' = passes + 1
             /\ Set(r, [e EXCEPT !.pc = "discovering", !.own = Len(heap) + 1,
                                 !.started = 1, !.shaken = {},
                                 !.final = << >>, !.fPasses = 0])

\* TryAddDevice(host) on manager object m: the handshake registers the device
AddDevice(h, m, host) ==
    IF \E i \in 1..Len(h[m].Devices) : h[m].Devices[i].Host = host
    THEN h
    ELSE [h EXCEPT ![m].Devices = Append(@, DevOfHost(host))]

\* the devices of list hs registered on manager object m, in order
RECURSIVE AddAll(_, _, _)
AddAll(h, m, hs) ==
    IF hs = << >> THEN h ELSE AddAll(AddDevice(h, m, Head(hs)), m, Tail(hs))

\* ensureManager lines 131-135: after the last await
EnsureFinish(r, rq, h) ==
    /\ heap' = [h EXCEPT ![manager].built = TRUE]
    /\ lastDiscover' = rq.enow
    /\ Set(r, [rq EXCEPT !.pc = "ensured", !.mgr = manager, !.todo = << >>,
                         !.final = [i \in 1..Len(h[manager].Devices) |->
                                       h[manager].Devices[i].Host],
                         !.fPasses = passes])

\* the handler's catch (or the lack of one) when ensureManager rejects
Reject(rq, m) ==
    [rq EXCEPT !.pc = "done",
               !.resp = IF rq.kind = "devices" THEN Unhandled(m) ELSE ErrResp(m)]

\* ensureManager line 121: InitializeWithDiscovery throws
DiscoveryFails(r) ==
    /\ req[r].pc = "discovering"
    /\ Set(r, Reject(req[r], "discovery failed"))
    /\ UNCHANGED <<now, manager, lastDiscover, heap, files, passes>>

\* ensureManager lines 121-124: InitializeWithDiscovery returns an array of
\* discovered devices; the first handshake is issued, or the build ends
DiscoveryReturnsArray(r) ==
    /\ req[r].pc = "discovering"
    /\ \E hs \in HostLists :
          IF hs = << >>
          THEN EnsureFinish(r, req[r], heap)
          ELSE /\ Set(r, [req[r] EXCEPT !.pc = "handshake", !.todo = hs,
                                      !.target = manager])
               /\ UNCHANGED <<lastDiscover, heap>>
    /\ UNCHANGED <<now, manager, files, passes>>

\* ensureManager lines 121-123: InitializeWithDiscovery returns something that
\* is no array, having registered the devices it found on its own object
DiscoveryReturnsOther(r) ==
    /\ req[r].pc = "discovering"
    /\ \E hs \in HostLists :
          EnsureFinish(r, [req[r] EXCEPT !.shaken = {hs[i] : i \in 1..Len(hs)}],
                       AddAll(heap, req[r].own, hs))
    /\ UNCHANGED <<now, manager, files, passes>>

\* a loop without the try of lines 125-127: a handshake that throws rejects
\* the whole call
HandshakeReturnsUncaught(r) ==
    /\ req[r].pc = "handshake"
    /\ \E ok \in BOOLEAN :
          LET rq == req[r]
              h  == AddDevice(heap, rq.target, Head(rq.todo))
              rest == Tail(rq.todo)
              e  == [rq EXCEPT !.shaken = @ \cup {Head(rq.todo)}]
          IN  IF ~ok
              THEN /\ Set(r, Reject(rq, "handshake failed"))
                   /\ UNCHANGED <<lastDiscover, heap>>
              ELSE IF rest = << >>
              THEN EnsureFinish(r, e, h)
              ELSE /\ heap' = h
                   /\ Set(r, [e EXCEPT !.todo = rest, !.target = manager])
                   /\ UNCHANGED lastDiscover
    /\ UNCHANGED <<now, manager, files, passes>>

\* ensureManager lines 124-129: one TryAddDevice returns or throws; the next
\* one is issued on whatever `manager` is by then, or the build ends
HandshakeReturns(r) ==
    /\ req[r].pc = "handshake"
    /\ \E ok \in BOOLEAN :
          LET rq == req[r]
              h  == IF ok THEN AddDevice(heap, rq.target, Head(rq.todo)) ELSE heap
              rest == Tail(rq.todo)
              e  == IF ok THEN [rq EXCEPT !.shaken = @ \cup {Head(rq.todo)}] ELSE rq
          IN  IF rest = << >>
              THEN EnsureFinish(r, e, h)
              ELSE /\ heap' = h
                   /\ Set(r, [e EXCEPT !.todo = rest, !.target = manager])
                   /\ UNCHANGED lastDiscover
    /\ UNCHANGED <<now, manager, files, passes>>

----------------------------------------------------------------------------
(* GET /discover and GET /devices *)

\* router.get("/discover"): ensureManager(true)
StartDiscover(r) ==
    /\ req[r].pc = "idle"
    /\ EnsureEnter(r, [req[r] EXCEPT !.kind = "discover"], TRUE)
    /\ UNCHANGED <<now, lastDiscover, files>>

\* router.get("/devices"): ensureManager()
StartDevices(r) ==
    /\ req[r].pc = "idle"
    /\ EnsureEnter(r, [req[r] EXCEPT !.kind = "devices"], FALSE)
    /\ UNCHANGED <<now, lastDiscover, files>>

\* both handlers answer once ensureManager has resolved
RegistryResponds(r) ==
    /\ req[r].pc = "ensured"
    /\ req[r].kind \in {"discover", "devices"}
    /\ Set(r, [req[r] EXCEPT !.pc = "done", !.resp = OkResp])
    /\ UNCHANGED <<now, manager, lastDiscover, heap, files, passes>>

\* the request is over; the connection serves the next one
Reset(r) ==
    /\ req[r].pc = "done"
    /\ Set(r, IdleReq)
    /\ UNCHANGED <<now, manager, lastDiscover, heap, files, passes>>

NextRegistry ==
    \/ Tick
    \/ \E r \in Req :
          \/ StartDiscover(r)
          \/ StartDevices(r)
          \/ DiscoveryFails(r)
          \/ DiscoveryReturnsArray(r)
          \/ DiscoveryReturnsOther(r)
          \/ HandshakeReturns(r)
          \/ RegistryResponds(r)
          \/ Reset(r)

SpecRegistry == Init /\ [][NextRegistry]_vars

----------------------------------------------------------------------------
(* cacheArtwork(uri) *)

\* a cache that never looks at the disk
FileExistsNever(hash) == FALSE

\* cacheArtwork line 44: fs.existsSync(out)
FileExists(hash) == hash \in files

\* cacheArtwork returns: the promise resolves with `ret`
CacheReturn(rq, ret) == [rq EXCEPT !.pc = "artDone", !.cRet = ret]

\* cacheArtwork lines 30-45: from the call to the fetch, or to the return
CacheEnter(r, rq, uri) ==
    LET e == [rq EXCEPT !.cUri = uri, !.cHash = << >>, !.fetched = 0,
                        !.wrote = FALSE,
                        !.prior = {q \in Req \ {r} : req[q].pc = "artDone"}]
    IN  IF ~StartsWithHttp(uri) THEN CacheReturn(e, ArtNull)
        ELSE IF ~CanDecode(uri) THEN CacheReturn(e, ArtNull)
        ELSE LET hash == Md5(CleanUri(uri))
             IN  IF FileExists(hash)
                 THEN CacheReturn([e EXCEPT !.cHash = hash], Local(hash))
                 ELSE [e EXCEPT !.pc = "artFetch", !.cHash = hash, !.fetched = 1]

\* cacheArtwork line 45: fetch rejects; the catch of line 57 returns null
ArtFetchThrows(r) ==
    /\ req[r].pc = "artFetch"
    /\ Set(r, CacheReturn(req[r], ArtNull))
    /\ UNCHANGED <<now, manager, lastDiscover, heap, files, passes>>

\* a cache that remembers a failed fetch by leaving a file behind
ArtFetchNotOkRemembered(r) ==
    /\ req[r].pc = "artFetch"
    /\ Set(r, CacheReturn(req[r], Local(req[r].cHash)))
    /\ files' = files \cup {req[r].cHash}
    /\ UNCHANGED <<now, manager, lastDiscover, heap, passes>>

\* cacheArtwork lines 46-56: the response is not ok; the path is returned
ArtFetchNotOk(r) ==
    /\ req[r].pc = "artFetch"
    /\ Set(r, CacheReturn(req[r], Local(req[r].cHash)))
    /\ UNCHANGED <<now, manager, lastDiscover, heap, files, passes>>

\* cacheArtwork lines 46-47: the response is ok; the body is awaited
ArtFetchOk(r) ==
    /\ req[r].pc = "artFetch"
    /\ Set(r, [req[r] EXCEPT !.pc = "artBody"])
    /\ UNCHANGED <<now, manager, lastDiscover, heap, files, passes>>

\* cacheArtwork lines 47-56: the body arrives and is written, or reading it throws
ArtBodyReturns(r) ==
    /\ req[r].pc = "artBody"
    /\ \E ok \in BOOLEAN :
          IF ok
          THEN /\ files' = files \cup {req[r].cHash}
               /\ Set(r, CacheReturn([req[r] EXCEPT !.wrote = TRUE],
                                     Local(req[r].cHash)))
          ELSE /\ Set(r, CacheReturn(req[r], ArtNull))
               /\ UNCHANGED files
    /\ UNCHANGED <<now, manager, lastDiscover, heap, passes>>

\* step 2G of a listing, taken alone: cacheArtwork(track.artwork)
StartArt(r) ==
    /\ req[r].pc = "idle"
    /\ \E uri \in ArtInputs :
          Set(r, CacheEnter(r, [req[r] EXCEPT !.kind = "art"], uri))
    /\ UNCHANGED <<now, manager, lastDiscover, heap, files, passes>>

NextCache ==
    \E r \in Req :
        \/ StartArt(r)
        \/ ArtFetchThrows(r)
        \/ ArtFetchNotOk(r)
        \/ ArtFetchOk(r)
        \/ ArtBodyReturns(r)

SpecCache == Init /\ [][NextCache]_vars

----------------------------------------------------------------------------
(* Transport endpoints: /play, /pause, /next, /previous *)

Endpoints == {"play", "pause", "next", "previous"}

\* groupId as sent by the client: absent, a registered or an unknown uuid
GroupIds == {"", D1.Uuid, D2.Uuid, "RINCON_X"}

\* what a transport action can fail with (err.message)
TransportErrors == {"UPnPError 402", "UPnPError 701", "ETIMEDOUT"}

\* a dispatcher that takes another UPnP error for the recoverable one
Is402Wrong(m) == m = "UPnPError 701"

\* lines 477: /UPnPError 402/i.test(err.message)
Is402(m) == m = "UPnPError 402"

\* a lookup that falls back on the first device
FindUuidOrFirst(devs, id) ==
    IF \E i \in 1..Len(devs) : devs[i].Uuid = id
    THEN CHOOSE i \in 1..Len(devs) : devs[i].Uuid = id
    ELSE IF Len(devs) > 0 THEN 1 ELSE 0

\* mgr.Devices.find((d) => d.Uuid === id): the index of the device, or 0
FindUuid(devs, id) ==
    IF \E i \in 1..Len(devs) : devs[i].Uuid = id
    THEN CHOOSE i \in 1..Len(devs) :
             /\ devs[i].Uuid = id
             /\ \A j \in 1..(i - 1) : devs[j].Uuid # id
    ELSE 0

\* res.json / res.status(500).json: the handler has answered
Respond(rq, resp) == [rq EXCEPT !.pc = "done", !.resp = resp]

\* lines 457-467: the handler up to ensureManager()
StartTransport(r) ==
    /\ req[r].pc = "idle"
    /\ \E ep \in Endpoints, id \in GroupIds :
          LET rq == [req[r] EXCEPT !.kind = ep, !.groupId = id]
          IN  IF id = ""
              THEN /\ Set(r, Respond(rq, ErrResp("Missing groupId")))
                   /\ UNCHANGED <<manager, heap, passes>>
              ELSE EnsureEnter(r, rq, FALSE)
    /\ UNCHANGED <<now, lastDiscover, files>>

\* lines 467-495: ensureManager has resolved; the coordinator is looked up and
\* the action invoked on it
TransportInvokes(r) ==
    /\ req[r].pc = "ensured"
    /\ req[r].kind \in Endpoints
    /\ LET rq == req[r]
           c  == FindUuid(heap[rq.mgr].Devices, rq.groupId)
       IN  IF c = 0
           THEN Set(r, Respond(rq, ErrResp("Coordinator not found")))
           ELSE IF rq.kind = "play"
           THEN Set(r, [rq EXCEPT !.pc = "play1", !.coord = rq.groupId,
                                  !.plays = 1])
           ELSE Set(r, [rq EXCEPT !.pc = "single", !.coord = rq.groupId,
                                  !.others = 1])
    /\ UNCHANGED <<now, manager, lastDiscover, heap, files, passes>>

\* Pause, Next or Previous treated as Play is at lines 476-492: UPnPError 402
\* starts the rebind loop and a second attempt
SingleReturnsRecovering(r) ==
    /\ req[r].pc = "single"
    /\ \/ Set(r, Respond(req[r], OkResp))
       \/ \E e \in TransportErrors :
             LET rq == [req[r] EXCEPT !.err = e]
             IN  IF Is402(e)
                 THEN Set(r, [rq EXCEPT !.pc = "rebind", !.di = 1,
                                 !.rebound = <<heap[rq.mgr].Devices[1].Host>>])
                 ELSE Set(r, Respond(rq, ErrResp(e)))
    /\ UNCHANGED <<now, manager, lastDiscover, heap, files, passes>>

\* lines 495-500: Pause, Next or Previous returns or throws
SingleReturns(r) ==
    /\ req[r].pc = "single"
    /\ \/ Set(r, Respond(req[r], OkResp))
       \/ \E e \in TransportErrors :
             Set(r, Respond([req[r] EXCEPT !.err = e], ErrResp(e)))
    /\ UNCHANGED <<now, manager, lastDiscover, heap, files, passes>>

\* lines 475, 498: the first Play succeeds
PlayOk(r) ==
    /\ req[r].pc = "play1"
    /\ Set(r, Respond(req[r], OkResp))
    /\ UNCHANGED <<now, manager, lastDiscover, heap, files, passes>>

\* lines 476-492: the first Play throws: on UPnPError 402 the rebind loop starts
\* with the first device of mgr.Devices; any other error is thrown on
PlayThrows(r) ==
    /\ req[r].pc = "play1"
    /\ \E e \in TransportErrors :
          LET rq == [req[r] EXCEPT !.err = e]
          IN  IF Is402(e)
              THEN Set(r, [rq EXCEPT !.pc = "rebind", !.di = 1,
                              !.rebound = <<heap[rq.mgr].Devices[1].Host>>])
              ELSE Set(r, Respond(rq, ErrResp(e)))
    /\ UNCHANGED <<now, manager, lastDiscover, heap, files, passes>>

\* lines 481-491: one SetAVTransportURI returns or throws (ignored); the next
\* device is rebound, or Play is invoked again
RebindReturns(r) ==
    /\ req[r].pc = "rebind"
    /\ LET rq == req[r]
           devs == heap[rq.mgr].Devices
       IN  IF rq.di < Len(devs)
           THEN Set(r, [rq EXCEPT !.di = rq.di + 1,
                           !.rebound = Append(rq.rebound, devs[rq.di + 1].Host)])
           ELSE Set(r, [rq EXCEPT !.pc = "play2", !.plays = rq.plays + 1,
                           !.known = [i \in 1..Len(devs) |-> devs[i].Host]])
    /\ UNCHANGED <<now, manager, lastDiscover, heap, files, passes>>

\* lines 491, 498-500: the second Play returns, or throws into the outer catch
RetryReturns(r) ==
    /\ req[r].pc = "play2"
    /\ \/ Set(r, Respond(req[r], OkResp))
       \/ \E e \in TransportErrors :
             Set(r, Respond([req[r] EXCEPT !.err2 = e], ErrResp(e)))
    /\ UNCHANGED <<now, manager, lastDiscover, heap, files, passes>>

NextTransport ==
    \E r \in Serial :
        \/ StartTransport(r)
        \/ DiscoveryFails(r)
        \/ DiscoveryReturnsArray(r)
        \/ DiscoveryReturnsOther(r)
        \/ HandshakeReturns(r)
        \/ TransportInvokes(r)
        \/ SingleReturns(r)
        \/ PlayOk(r)
        \/ PlayThrows(r)
        \/ RebindReturns(r)
        \/ RetryReturns(r)
        \/ Reset(r)

SpecTransport == Init /\ [][NextTransport]_vars

\* the second module of sonos-router.js, lines 788-805: the first Play throws;
\* its catch has no else branch, so an error other than UPnPError 402 is
\* dropped and the handler goes on to res.json({ ok: true })
PlayThrowsSecond(r) ==
    /\ req[r].pc = "play1"
    /\ \E e \in TransportErrors :
          LET rq == [req[r] EXCEPT !.err = e]
          IN  IF Is402(e)
              THEN Set(r, [rq EXCEPT !.pc = "rebind", !.di = 1,
                              !.rebound = <<heap[rq.mgr].Devices[1].Host>>])
              ELSE Set(r, Respond(rq, OkResp))
    /\ UNCHANGED <<now, manager, lastDiscover, heap, files, passes>>

\* the transport endpoints of the second module, lines 772-814
NextTransportSecond ==
    \E r \in Serial :
        \/ StartTransport(r)
        \/ DiscoveryFails(r)
        \/ DiscoveryReturnsArray(r)
        \/ DiscoveryReturnsOther(r)
        \/ HandshakeReturns(r)
        \/ TransportInvokes(r)
        \/ SingleReturns(r)
        \/ PlayOk(r)
        \/ PlayThrowsSecond(r)
        \/ RebindReturns(r)
        \/ RetryReturns(r)
        \/ Reset(r)

SpecTransportSecond == Init /\ [][NextTransportSecond]_vars

----------------------------------------------------------------------------
(* buildGroups() *)

Issue(rq, k) == [rq EXCEPT !.io[k] = @ + 1]

\* the stage st of the group in hand has ended
Log(rq, st, out, reply) ==
    [rq EXCEPT !.trail[st] = [out |-> out, reply |-> reply, track |-> rq.track,
                              state |-> rq.state]]

\* mgr.Devices.find((d) => d.Host === host): the index of the device, or 0
FindHost(devs, host) ==
    IF \E i \in 1..Len(devs) : devs[i].Host = host
    THEN CHOOSE i \in 1..Len(devs) :
             /\ devs[i].Host = host
             /\ \A j \in 1..(i - 1) : devs[j].Host # host
    ELSE 0

RECURSIVE Sum(_)
Sum(v) == IF v = << >> THEN 0 ELSE Head(v) + Sum(Tail(v))

\* an average that counts the members whose query failed as 0
AverageOverMembers(vols, members) ==
    IF Len(vols) > 0 THEN (2 * Sum(vols) + Len(members)) \div (2 * Len(members)) ELSE 0

\* lines 387-390: Math.round(sum / vols.length), 0 for no volume
Average(vols, members) ==
    IF Len(vols) > 0 THEN (2 * Sum(vols) + Len(vols)) \div (2 * Len(vols)) ELSE 0

\* buildGroups resolves with `results`; its locals are gone
BuildReturn(rq) ==
    [rq EXCEPT !.pc = "built", !.inBuild = FALSE,
               !.gi = 0, !.chost = "", !.pos = Threw, !.track = EmptyTrack,
               !.state = "", !.members = << >>, !.mi = 0, !.vols = << >>,
               !.cUri = ArtNull, !.cHash = << >>, !.cRet = ArtNull,
               !.fetched = 0, !.wrote = FALSE, !.prior = {},
               !.trail = [st \in Stages |-> NoStage]]

\* lines 216-227: the next entry of the map whose coordinator is registered;
\* its position info is asked for
RECURSIVE GroupNext(_, _)
GroupNext(rq, g) ==
    IF g > Len(rq.groups) THEN BuildReturn(rq)
    ELSE LET devs == heap[rq.gmgr].Devices
             c == FindUuid(devs, rq.groups[g].coord)
         IN  IF c = 0 THEN GroupNext(rq, g + 1)
             ELSE Issue([rq EXCEPT !.pc = "position", !.gi = g,
                                   !.chost = devs[c].Host,
                                   !.track = EmptyTrack, !.state = "unknown",
                                   !.members = rq.groups[g].members,
                                   !.vols = << >>,
                                   !.trail = [st \in Stages |-> NoStage],
                                   !.queried = @ \cup {rq.groups[g].coord}],
                        "position")

\* lines 395-403: the group is added to `results`
PushResult(rq) ==
    [rq EXCEPT !.results =
        Append(@, [id |-> rq.groups[rq.gi].coord,
                   name |-> <<rq.members[1].name, Len(rq.members) - 1>>,
                   coordinator |-> rq.groups[rq.gi].coord,
                   status |-> rq.state,
                   track |-> rq.track,
                   avgVolume |-> Average(rq.vols, rq.members),
                   members |-> rq.members])]

\* a member loop that looks its devices up in the global `manager`
RECURSIVE VolumeNextGlobal(_, _)
VolumeNextGlobal(rq, m) ==
    IF m > Len(rq.members) THEN GroupNext(PushResult(rq), rq.gi + 1)
    ELSE IF FindHost(heap[manager].Devices, rq.members[m].host) = 0
         THEN VolumeNextGlobal(rq, m + 1)
         ELSE Issue([rq EXCEPT !.pc = "getVolume", !.mi = m], "getVolume")

\* lines 370-375: the next member with a registered device is asked its volume
RECURSIVE VolumeNext(_, _)
VolumeNext(rq, m) ==
    IF m > Len(rq.members) THEN GroupNext(PushResult(rq), rq.gi + 1)
    ELSE IF FindHost(heap[rq.gmgr].Devices, rq.members[m].host) = 0
         THEN VolumeNext(rq, m + 1)
         ELSE Issue([rq EXCEPT !.pc = "getVolume", !.mi = m], "getVolume")

\* the conditional of lines 351-358 with its first two tests exchanged
SourceRadioFirst(u) ==
    IF Includes(u, <<"mp3radio">>) THEN "MP3 Radio"
    ELSE IF Includes(u, <<"spotify">>) THEN "Spotify"
    ELSE IF Includes(u, <<"tunein">>) THEN "TuneIn"
    ELSE "Sonos Queue"

\* lines 351-358: the value assigned to track.source
Source(u) ==
    IF Includes(u, <<"spotify">>) THEN "Spotify"
    ELSE IF Includes(u, <<"mp3radio">>) THEN "MP3 Radio"
    ELSE IF Includes(u, <<"tunein">>) THEN "TuneIn"
    ELSE "Sonos Queue"

\* lines 351-363: source, then cacheArtwork(track.artwork)
Stage2F(r, rq) ==
    CacheEnter(r, [rq EXCEPT !.track.source = Source(rq.track.uri)],
               rq.track.artwork)

\* lines 283-289: the raw GetMediaInfo of radio and aac streams
Stage2E(r, rq) ==
    LET u == rq.track.uri
    IN  IF \/ Includes(u, <<"tunein">>)
           \/ Includes(u, <<"mp3radio">>)
           \/ (Len(u) > 0 /\ u[1] = "aac://")
        THEN Issue([rq EXCEPT !.pc = "stream"], "stream")
        ELSE Stage2F(r, Log(rq, "2E", "skip", Threw))

\* lines 262-268: the oEmbed lookup of a Spotify track without artwork
Stage2D(r, rq) ==
    IF /\ ~HasArt(rq.track.artwork)
       /\ Includes(rq.track.uri, <<"spotify", ":track:">>)
       /\ SpotifyId(rq.track.uri) # ""
    THEN Issue([rq EXCEPT !.pc = "oembed"], "oembed")
    ELSE Stage2E(r, Log(rq, "2D", "skip", Threw))

\* lines 255-257: the placeholder of a radio stream without artwork
Stage2C(r, rq) ==
    IF ~HasArt(rq.track.artwork) /\ Includes(rq.track.uri, <<"x-rincon-", "mp3radio">>)
    THEN Stage2D(r, Log([rq EXCEPT !.track.artwork = Placeholder], "2C",
                        "placeholder", Threw))
    ELSE Stage2D(r, Log(rq, "2C", "skip", Threw))

\* line 241: GetMediaInfo is invoked
Stage2B(rq) == Issue([rq EXCEPT !.pc = "media", !.pos = Threw], "media")

\* a loop that goes through `mgr.Devices` from its end
TopologyNextBackwards(rq, i) ==
    LET devs == heap[rq.gmgr].Devices
    IN  IF i <= Len(devs)
        THEN Issue([rq EXCEPT !.pc = "topology", !.ti = i,
                              !.asked = Append(@, devs[Len(devs) + 1 - i].Host)],
                   "topology")
        ELSE BuildReturn(rq)

\* lines 151-153, 182: the next device is asked for the topology, or there is
\* none and buildGroups returns []
TopologyNext(rq, i) ==
    LET devs == heap[rq.gmgr].Devices
    IN  IF i <= Len(devs)
        THEN Issue([rq EXCEPT !.pc = "topology", !.ti = i,
                              !.asked = Append(@, devs[i].Host)],
                   "topology")
        ELSE BuildReturn(rq)

\* Map.prototype.set: a key already present keeps its place
MapSet(groups, k, v) ==
    IF \E i \in 1..Len(groups) : groups[i].coord = k
    THEN [i \in 1..Len(groups) |->
             IF groups[i].coord = k THEN [coord |-> k, members |-> v] ELSE groups[i]]
    ELSE Append(groups, [coord |-> k, members |-> v])

\* new URL(location).hostname
Hostname(loc) == loc.host

\* lines 195-209: the map coordinator -> members of the zone groups
RECURSIVE ToGroups(_, _)
ToGroups(zoneGroups, groups) ==
    IF zoneGroups = << >> THEN groups
    ELSE LET g == Head(zoneGroups)
             ms == g.ZoneGroupMember
         IN  ToGroups(Tail(zoneGroups),
                 MapSet(groups, g.Coordinator,
                     [i \in 1..Len(ms) |->
                         [name |-> ms[i].ZoneName,
                          host |-> Hostname(ms[i].Location),
                          uuid |-> ms[i].UUID,
                          volume |-> [set |-> FALSE, null |-> FALSE, v |-> 0]]]))

\* buildGroups line 143: ensureManager()
BuildEnter(r, rq) ==
    EnsureEnter(r, [rq EXCEPT !.inBuild = TRUE, !.results = << >>,
                              !.groups = << >>], FALSE)

\* router.get("/groups"), line 439
StartGroups(r) ==
    /\ req[r].pc = "idle"
    /\ BuildEnter(r, [req[r] EXCEPT !.kind = "groups"])
    /\ UNCHANGED <<now, lastDiscover, files>>

\* lines 143-153: ensureManager has resolved; the topology loop starts
BuildResumes(r) ==
    /\ req[r].pc = "ensured"
    /\ req[r].inBuild
    /\ Set(r, TopologyNext([req[r] EXCEPT !.gmgr = req[r].mgr], 1))
    /\ UNCHANGED <<now, manager, lastDiscover, heap, files, passes>>

\* lines 153-180: the device does not answer, or its answer holds no
\* ZoneGroupState
TopologyFails(r) ==
    /\ req[r].pc = "topology"
    /\ Set(r, TopologyNext(req[r], req[r].ti + 1))
    /\ UNCHANGED <<now, manager, lastDiscover, heap, files, passes>>

\* lines 168-227: the device answers with the topology; the map is built and
\* the first group taken in hand
TopologyReturns(r) ==
    /\ req[r].pc = "topology"
    /\ \E t \in Topologies :
          Set(r, GroupNext([req[r] EXCEPT !.groups = ToGroups(t, << >>),
                                          !.got = req[r].ti], 1))
    /\ UNCHANGED <<now, manager, lastDiscover, heap, files, passes>>

\* line 185: the ZoneGroupState does not parse; buildGroups rejects
TopologyMalformed(r) ==
    /\ req[r].pc = "topology"
    /\ Set(r, Respond([req[r] EXCEPT !.got = req[r].ti],
                      ErrResp("topology does not parse")))
    /\ UNCHANGED <<now, manager, lastDiscover, heap, files, passes>>

\* lines 227, 235-241: GetPositionInfo throws; GetMediaInfo is next
PositionThrows(r) ==
    /\ req[r].pc = "position"
    /\ Set(r, Stage2B(Log(req[r], "2A", "positionThrew", Threw)))
    /\ UNCHANGED <<now, manager, lastDiscover, heap, files, passes>>

\* lines 227-228: GetPositionInfo returns; GetTransportInfo is invoked
PositionReturns(r) ==
    /\ req[r].pc = "position"
    /\ \E p \in PositionReplies(DevOfHost(req[r].chost)) :
          Set(r, Issue([req[r] EXCEPT !.pc = "transport",
                           !.pos = [ok |-> TRUE, TrackURI |-> p.TrackURI,
                                    TrackMetaData |-> p.TrackMetaData]],
                       "transport"))
    /\ UNCHANGED <<now, manager, lastDiscover, heap, files, passes>>

\* lines 228, 235-241: GetTransportInfo throws; the position reply is dropped
TransportThrows(r) ==
    /\ req[r].pc = "transport"
    /\ Set(r, Stage2B(Log(req[r], "2A", "transportThrew", req[r].pos)))
    /\ UNCHANGED <<now, manager, lastDiscover, heap, files, passes>>

\* lines 228-241: GetTransportInfo returns; state, uri and the metadata of the
\* position reply are taken
TransportReturns(r) ==
    /\ req[r].pc = "transport"
    /\ \E st \in TransportStates :
          LET rq == req[r]
              meta == ParseTrackMeta(rq.pos.TrackMetaData, rq.chost)
              t1 == [rq.track EXCEPT !.uri = rq.pos.TrackURI]
              t2 == IF meta.empty THEN t1
                    ELSE [t1 EXCEPT !.title = meta.title, !.artist = meta.artist,
                                    !.album = meta.album, !.artwork = meta.artwork]
          IN  Set(r, Stage2B(Log([rq EXCEPT
                      !.state = IF ToLowerCase(st) # "" THEN ToLowerCase(st) ELSE "unknown",
                      !.track = t2], "2A", "ok", rq.pos)))
    /\ UNCHANGED <<now, manager, lastDiscover, heap, files, passes>>

\* a catch that drops what the earlier stage found
MediaThrowsClearing(r) ==
    /\ req[r].pc = "media"
    /\ Set(r, Stage2C(r, Log([req[r] EXCEPT !.track = EmptyTrack], "2B", "threw", Threw)))
    /\ UNCHANGED <<now, manager, lastDiscover, heap, files, passes>>

\* lines 241, 250-: GetMediaInfo throws
MediaThrows(r) ==
    /\ req[r].pc = "media"
    /\ Set(r, Stage2C(r, Log(req[r], "2B", "threw", Threw)))
    /\ UNCHANGED <<now, manager, lastDiscover, heap, files, passes>>

\* lines 241-249: GetMediaInfo returns; its non-empty fields are taken
MediaReturns(r) ==
    /\ req[r].pc = "media"
    /\ \E m \in MediaReplies(DevOfHost(req[r].chost)) :
          LET rq == req[r]
              doc == IF m.CurrentURIMetaData.k # "absent"
                     THEN m.CurrentURIMetaData ELSE m.EnqueuedTransportURIMetaData
              meta == ParseTrackMeta(doc, rq.chost)
              t == [rq.track EXCEPT
                      !.title = IF meta.title # "" THEN meta.title ELSE @,
                      !.artist = IF meta.artist # "" THEN meta.artist ELSE @,
                      !.album = IF meta.album # "" THEN meta.album ELSE @,
                      !.artwork = IF HasArt(meta.artwork) THEN meta.artwork ELSE @]
          IN  Set(r, Stage2C(r, Log([rq EXCEPT !.track = t], "2B", "ok", doc)))
    /\ UNCHANGED <<now, manager, lastDiscover, heap, files, passes>>

\* lines 266-277: the oEmbed fetch throws or is not ok
OembedFails(r) ==
    /\ req[r].pc = "oembed"
    /\ Set(r, Stage2E(r, Log(req[r], "2D", "failed", Threw)))
    /\ UNCHANGED <<now, manager, lastDiscover, heap, files, passes>>

\* title.replace(/ - topic$/i, "")
StripTopic(title) ==
    IF Len(title) > 0 /\ title[Len(title)] \in {" - topic", " - Topic", " - TOPIC"}
    THEN Text(SubSeq(title, 1, Len(title) - 1))
    ELSE Text(title)

\* lines 269-273: the oEmbed document arrives
OembedReturns(r) ==
    /\ req[r].pc = "oembed"
    /\ \E data \in OembedReplies :
          LET rq == req[r]
              t == [rq.track EXCEPT
                      !.artwork = IF HasArt(data.thumbnail_url)
                                  THEN data.thumbnail_url ELSE @,
                      !.title = IF @ # "" THEN @ ELSE StripTopic(data.title)]
          IN  Set(r, Stage2E(r, Log([rq EXCEPT !.track = t], "2D", "ok", data)))
    /\ UNCHANGED <<now, manager, lastDiscover, heap, files, passes>>

\* lines 289-345: the raw GetMediaInfo throws or does not parse
StreamFails(r) ==
    /\ req[r].pc = "stream"
    /\ Set(r, Stage2F(r, Log(req[r], "2E", "failed", Threw)))
    /\ UNCHANGED <<now, manager, lastDiscover, heap, files, passes>>

\* a stage that loses the album art it was given
StreamArtDropped(a, host) == ArtNull

\* lines 325-327: artUri.replace(/&amp;/g, "&").trim(), put on the host
StreamArt(a, host) ==
    Absolute(IF a.enc = "amp" THEN [a EXCEPT !.enc = "plain"] ELSE a, host)

\* lines 306-342: the raw GetMediaInfo returns: album art, title, artist, album
StreamReturns(r) ==
    /\ req[r].pc = "stream"
    /\ \E doc \in StreamReplies :
          LET rq == req[r]
              tr == rq.track
              art == IF HasArt(doc.art)
                     THEN IF ~HasArt(tr.artwork) \/ tr.artwork = Placeholder
                          THEN StreamArt(doc.art, rq.chost)
                          ELSE tr.artwork
                     ELSE IF Len(tr.uri) > 0 /\ tr.uri[1] = "aac://"
                          THEN Http(rq.chost \o ":1400",
                                    "/getaa?s=1&u=" \o Text(tr.uri), "pct")
                          ELSE tr.artwork
              t == [tr EXCEPT
                      !.artwork = art,
                      !.title = IF @ # "" THEN @ ELSE doc.title,
                      !.artist = IF @ # "" THEN @
                                 ELSE IF doc.creator # "" THEN doc.creator
                                 ELSE "Live Stream",
                      !.album = IF @ # "" THEN @ ELSE "TuneIn Radio"]
          IN  Set(r, Stage2F(r, Log(IF doc.k = "didl" THEN [rq EXCEPT !.track = t]
                                    ELSE rq, "2E", "ok", doc)))
    /\ UNCHANGED <<now, manager, lastDiscover, heap, files, passes>>

\* lines 363-375: cacheArtwork has resolved; the volumes are next
ArtResumes(r) ==
    /\ req[r].pc = "artDone"
    /\ req[r].inBuild
    /\ LET rq == req[r]
       IN  Set(r, VolumeNext(
                     Log(IF HasArt(rq.cRet) THEN [rq EXCEPT !.track.artwork = rq.cRet]
                         ELSE rq, "2G", "ok", rq.cRet), 1))
    /\ UNCHANGED <<now, manager, lastDiscover, heap, files, passes>>

\* lines 375, 382-384: GetVolume throws
GetVolumeThrows(r) ==
    /\ req[r].pc = "getVolume"
    /\ LET rq == req[r]
       IN  Set(r, VolumeNext(
                     [rq EXCEPT !.members[rq.mi].volume =
                                    [set |-> TRUE, null |-> TRUE, v |-> 0]],
                     rq.mi + 1))
    /\ UNCHANGED <<now, manager, lastDiscover, heap, files, passes>>

\* lines 375-381: GetVolume returns
GetVolumeReturns(r) ==
    /\ req[r].pc = "getVolume"
    /\ \E v \in Volumes :
          LET rq == req[r]
          IN  Set(r, VolumeNext(
                        [rq EXCEPT !.members[rq.mi].volume =
                                       [set |-> TRUE, null |-> FALSE, v |-> v],
                                   !.vols = Append(@, v)],
                        rq.mi + 1))
    /\ UNCHANGED <<now, manager, lastDiscover, heap, files, passes>>

\* router.get("/groups"), line 440
GroupsResponds(r) ==
    /\ req[r].pc = "built"
    /\ req[r].kind = "groups"
    /\ Set(r, Respond(req[r], OkResp))
    /\ UNCHANGED <<now, manager, lastDiscover, heap, files, passes>>

NextGroups ==
    \E r \in Serial :
        \/ StartGroups(r)
        \/ DiscoveryFails(r)
        \/ DiscoveryReturnsArray(r)
        \/ DiscoveryReturnsOther(r)
        \/ HandshakeReturns(r)
        \/ BuildResumes(r)
        \/ TopologyFails(r)
        \/ TopologyReturns(r)
        \/ TopologyMalformed(r)
        \/ PositionThrows(r)
        \/ PositionReturns(r)
        \/ TransportThrows(r)
        \/ TransportReturns(r)
        \/ MediaThrows(r)
        \/ MediaReturns(r)
        \/ OembedFails(r)
        \/ OembedReturns(r)
        \/ StreamFails(r)
        \/ StreamReturns(r)
        \/ ArtFetchThrows(r)
        \/ ArtFetchNotOk(r)
        \/ ArtFetchOk(r)
        \/ ArtBodyReturns(r)
        \/ ArtResumes(r)
        \/ GetVolumeThrows(r)
        \/ GetVolumeReturns(r)
        \/ GroupsResponds(r)

SpecGroups == Init /\ [][NextGroups]_vars

\* GET /discover arrives on another connection while the listing of a
\* GET /groups is at work on the manager it was handed at line 143
RefreshArrives(r) ==
    /\ \E q \in Serial : req[q].inBuild /\ req[q].gmgr # 0
    /\ StartDiscover(r)

\* GET /groups on one connection and GET /discover on another
NextListing ==
    \/ NextGroups
    \/ \E r \in Req \ Serial :
          \/ RefreshArrives(r)
          \/ DiscoveryFails(r)
          \/ DiscoveryReturnsArray(r)
          \/ DiscoveryReturnsOther(r)
          \/ HandshakeReturns(r)
          \/ RegistryResponds(r)

SpecListing == Init /\ [][NextListing]_vars

----------------------------------------------------------------------------
(* router.all("/volume") *)

\* `level` as the request carries it: absent, a numeral, a word, or ""
Numeral(n) == [k |-> "numeral", n |-> n]
Levels ==
    {[k |-> "undefined", n |-> 0], [k |-> "word", n |-> 0], [k |-> "empty", n |-> 0]}
        \cup {Numeral(n) : n \in {-1, 0, 100, 101, 150}}

\* the groups a volume request names
VolumeGroupIds == {D1.Uuid, "RINCON_X"}

\* Number(level): NaN for a word, 0 for ""
NumberOf(level) ==
    [nan |-> level.k = "word", n |-> IF level.k = "numeral" THEN level.n ELSE 0]

\* line 527: isNaN(v) || v < 0 || v > 100
OutOfRange(v) == v.nan \/ v.n < 0 \/ v.n > 100

\* groups.find((g) => g.id === groupId): its index, or 0
FindGroup(results, id) ==
    IF \E i \in 1..Len(results) : results[i].id = id
    THEN CHOOSE i \in 1..Len(results) :
             /\ results[i].id = id
             /\ \A j \in 1..(i - 1) : results[j].id # id
    ELSE 0

\* lines 530-541: SetVolume on the next member with a registered device, or
\* the response
RECURSIVE SetNext(_, _)
SetNext(rq, m) ==
    IF m > Len(rq.gmembers)
    THEN Respond([rq EXCEPT !.volume = NumberOf(rq.level).n], OkResp)
    ELSE IF FindHost(heap[rq.vmgr].Devices, rq.gmembers[m].host) = 0
         THEN SetNext(rq, m + 1)
         ELSE Issue([rq EXCEPT !.pc = "setVolume", !.mi = m], "setVolume")

\* lines 545-561: GetVolume on the next member with a registered device, or
\* the response with the average
RECURSIVE ReadNext(_, _)
ReadNext(rq, m) ==
    IF m > Len(rq.gmembers)
    THEN Respond([rq EXCEPT !.volume = Average(rq.rvols, rq.gmembers)], OkResp)
    ELSE IF FindHost(heap[rq.vmgr].Devices, rq.gmembers[m].host) = 0
         THEN ReadNext(rq, m + 1)
         ELSE Issue([rq EXCEPT !.pc = "readVolume", !.mi = m], "getVolume")

\* lines 510-518: groupId, level, ensureManager()
StartVolume(r) ==
    /\ req[r].pc = "idle"
    /\ \E id \in VolumeGroupIds, level \in Levels :
          EnsureEnter(r, [req[r] EXCEPT !.kind = "volume", !.groupId = id,
                                        !.level = level], FALSE)
    /\ UNCHANGED <<now, lastDiscover, files>>

\* lines 518-521: ensureManager has resolved; buildGroups()
VolumeCallsBuild(r) ==
    /\ req[r].pc = "ensured"
    /\ req[r].kind = "volume"
    /\ ~req[r].inBuild
    /\ BuildEnter(r, [req[r] EXCEPT !.vmgr = req[r].mgr])
    /\ UNCHANGED <<now, lastDiscover, files>>

\* lines 521-530, 544-545: buildGroups has resolved; the group is looked up,
\* the level checked, and the members gone through
VolumeResumes(r) ==
    /\ req[r].pc = "built"
    /\ req[r].kind = "volume"
    /\ LET rq == req[r]
           g == FindGroup(rq.results, rq.groupId)
           e == IF g = 0 THEN rq
                ELSE [rq EXCEPT !.gmembers = rq.results[g].members, !.rvols = << >>]
       IN  Set(r, IF g = 0 THEN Respond(rq, ErrResp("Group not found"))
                  ELSE IF rq.level.k # "undefined"
                       THEN IF OutOfRange(NumberOf(rq.level))
                            THEN Respond(e, ErrResp("Volume must be 0-100"))
                            ELSE SetNext(e, 1)
                       ELSE ReadNext(e, 1))
    /\ UNCHANGED <<now, manager, lastDiscover, heap, files, passes>>

\* lines 533-538: SetVolume returns or throws; either way the next member
SetVolumeReturns(r) ==
    /\ req[r].pc = "setVolume"
    /\ Set(r, SetNext(req[r], req[r].mi + 1))
    /\ UNCHANGED <<now, manager, lastDiscover, heap, files, passes>>

\* lines 548, 553: GetVolume throws
ReadVolumeThrows(r) ==
    /\ req[r].pc = "readVolume"
    /\ Set(r, ReadNext(req[r], req[r].mi + 1))
    /\ UNCHANGED <<now, manager, lastDiscover, heap, files, passes>>

\* lines 548-552: GetVolume returns
ReadVolumeReturns(r) ==
    /\ req[r].pc = "readVolume"
    /\ \E v \in Volumes :
          Set(r, ReadNext([req[r] EXCEPT !.rvols = Append(@, v)], req[r].mi + 1))
    /\ UNCHANGED <<now, manager, lastDiscover, heap, files, passes>>

NextVolume ==
    \E r \in Serial :
        \/ StartVolume(r)
        \/ DiscoveryFails(r)
        \/ DiscoveryReturnsArray(r)
        \/ DiscoveryReturnsOther(r)
        \/ HandshakeReturns(r)
        \/ VolumeCallsBuild(r)
        \/ BuildResumes(r)
        \/ TopologyFails(r)
        \/ TopologyReturns(r)
        \/ TopologyMalformed(r)
        \/ PositionThrows(r)
        \/ PositionReturns(r)
        \/ TransportThrows(r)
        \/ TransportReturns(r)
        \/ MediaThrows(r)
        \/ MediaReturns(r)
        \/ OembedFails(r)
        \/ OembedReturns(r)
        \/ StreamFails(r)
        \/ StreamReturns(r)
        \/ ArtFetchThrows(r)
        \/ ArtFetchNotOk(r)
        \/ ArtFetchOk(r)
        \/ ArtBodyReturns(r)
        \/ ArtResumes(r)
        \/ GetVolumeThrows(r)
        \/ GetVolumeReturns(r)
        \/ VolumeResumes(r)
        \/ SetVolumeReturns(r)
        \/ ReadVolumeThrows(r)
        \/ ReadVolumeReturns(r)

SpecVolume == Init /\ [][NextVolume]_vars

----------------------------------------------------------------------------
(* src/sonosplayer.js: the position stage of buildGroups with its member
   fallback. The routers of src/backend do not have the fallback. *)

\* parseTrackMeta of src/sonosplayer.js: the elements are matched by regular
\* expressions; dc:title is the title
LegacyParseTrackMeta(doc, host) ==
    IF doc.k = "absent" THEN NoMeta
    ELSE [empty |-> FALSE, title |-> doc.title, artist |-> doc.creator,
          album |-> doc.album, artwork |-> Absolute(doc.art, host)]

\* what a member answers to the GetPositionInfo request: a text without
\* TrackMetaData, TrackMetaData NOT_IMPLEMENTED, or TrackMetaData
MemberReplies ==
    {[k |-> "nomatch", doc |-> DocAbsent],
     [k |-> "notimpl", doc |-> DocAbsent],
     [k |-> "meta", doc |-> Didl("", "", "Somebody", "", ArtNull)],
     [k |-> "meta", doc |-> Didl("", "Member Song", "Member Artist", "", ArtNull)]}

\* line 221: the fallback is left: track = { ...track, ...meta }
LegacyMerge(rq) ==
    [rq EXCEPT !.pc = "legacyDone",
               !.track = IF rq.meta.empty THEN rq.track
                         ELSE [rq.track EXCEPT !.title = rq.meta.title,
                                               !.artist = rq.meta.artist,
                                               !.album = rq.meta.album,
                                               !.artwork = rq.meta.artwork]]

\* a loop that asks every member and keeps the last title found
LegacyMemberNextAll(rq, m) ==
    IF m <= Len(rq.members)
    THEN Issue([rq EXCEPT !.pc = "memberPosition", !.mi = m,
                          !.masked = Append(@, rq.members[m].host)],
               "memberPosition")
    ELSE LegacyMerge(rq)

\* lines 187-190, 211-214: the next member is asked, unless a title was found
LegacyMemberNext(rq, m) ==
    IF rq.mfound = 0 /\ m <= Len(rq.members)
    THEN Issue([rq EXCEPT !.pc = "memberPosition", !.mi = m,
                          !.masked = Append(@, rq.members[m].host)],
               "memberPosition")
    ELSE LegacyMerge(rq)

\* lines 163-179: a group whose coordinator is registered is taken in hand
LegacyStart(r) ==
    /\ req[r].pc = "idle"
    /\ \E t \in Topologies : \E g \in 1..Len(ToGroups(t, << >>)) :
          LET e == ToGroups(t, << >>)[g]
          IN  Set(r, Issue([req[r] EXCEPT !.kind = "legacy", !.pc = "legacyPosition",
                                          !.members = e.members,
                                          !.chost = (CHOOSE d \in Devs : d.Uuid = e.coord).Host,
                                          !.groupId = e.coord,
                                          !.track = EmptyTrack, !.state = "unknown"],
                           "position"))
    /\ UNCHANGED <<now, manager, lastDiscover, heap, files, passes>>

\* lines 179, 222: GetPositionInfo throws
LegacyPositionThrows(r) ==
    /\ req[r].pc = "legacyPosition"
    /\ Set(r, [req[r] EXCEPT !.pc = "legacyDone"])
    /\ UNCHANGED <<now, manager, lastDiscover, heap, files, passes>>

\* lines 179-180: GetPositionInfo returns
LegacyPositionReturns(r) ==
    /\ req[r].pc = "legacyPosition"
    /\ \E p \in PositionReplies(D1) \cup PositionReplies(D2) :
          Set(r, Issue([req[r] EXCEPT !.pc = "legacyTransport",
                           !.pos = [ok |-> TRUE, TrackURI |-> p.TrackURI,
                                    TrackMetaData |-> p.TrackMetaData]],
                       "transport"))
    /\ UNCHANGED <<now, manager, lastDiscover, heap, files, passes>>

\* lines 180, 222: GetTransportInfo throws
LegacyTransportThrows(r) ==
    /\ req[r].pc = "legacyTransport"
    /\ Set(r, [req[r] EXCEPT !.pc = "legacyDone"])
    /\ UNCHANGED <<now, manager, lastDiscover, heap, files, passes>>

\* lines 180-188: GetTransportInfo returns; the metadata of the coordinator is
\* parsed and, without a title, the first member asked
LegacyTransportReturns(r) ==
    /\ req[r].pc = "legacyTransport"
    /\ \E st \in TransportStates :
          LET rq == req[r]
              e == [rq EXCEPT
                      !.state = IF ToLowerCase(st) # "" THEN ToLowerCase(st) ELSE "unknown",
                      !.track.uri = rq.pos.TrackURI,
                      !.meta = LegacyParseTrackMeta(rq.pos.TrackMetaData, rq.chost),
                      !.mfound = 0, !.masked = << >>]
          IN  Set(r, IF e.meta.title = "" THEN LegacyMemberNext(e, 1)
                     ELSE LegacyMerge(e))
    /\ UNCHANGED <<now, manager, lastDiscover, heap, files, passes>>

\* lines 190, 217: the request to the member throws
LegacyMemberThrows(r) ==
    /\ req[r].pc = "memberPosition"
    /\ Set(r, LegacyMemberNext(req[r], req[r].mi + 1))
    /\ UNCHANGED <<now, manager, lastDiscover, heap, files, passes>>

\* lines 207-214: the member answers; metadata with a title ends the loop
LegacyMemberReturns(r) ==
    /\ req[r].pc = "memberPosition"
    /\ \E a \in MemberReplies :
          LET rq == req[r]
              mMeta == LegacyParseTrackMeta(a.doc, rq.members[rq.mi].host)
          IN  Set(r, IF a.k = "meta" /\ mMeta.title # ""
                     THEN LegacyMemberNext([rq EXCEPT !.meta = mMeta, !.mfound = rq.mi],
                                           rq.mi + 1)
                     ELSE LegacyMemberNext(rq, rq.mi + 1))
    /\ UNCHANGED <<now, manager, lastDiscover, heap, files, passes>>

\* the next group, or the next listing
LegacyReset(r) ==
    /\ req[r].pc = "legacyDone"
    /\ Set(r, IdleReq)
    /\ UNCHANGED <<now, manager, lastDiscover, heap, files, passes>>

NextLegacy ==
    \E r \in Serial :
        \/ LegacyStart(r)
        \/ LegacyPositionThrows(r)
        \/ LegacyPositionReturns(r)
        \/ LegacyTransportThrows(r)
        \/ LegacyTransportReturns(r)
        \/ LegacyMemberThrows(r)
        \/ LegacyMemberReturns(r)
        \/ LegacyReset(r)

SpecLegacy == Init /\ [][NextLegacy]_vars

----------------------------------------------------------------------------
(* Device registry: claims *)

\* request r has called ensureManager as the whole of its handler
RegistryCall(r) == req[r].kind \in {"discover", "devices"}

\* C4: while a discovery pass is in flight, an overlapping ensureManager call
\* starts no second discovery pass (so at most one pass is ever in flight).
C4_SingleFlight ==
    /\ \A r \in Req : RegistryCall(r) /\ req[r].overlap => req[r].started = 0
    /\ Cardinality({r \in Req : InFlight(r)}) <= 1

\* a non-forced call that entered after exactly one refresh had been started and
\* had completed, less than 60 s after the refresh
AfterOneRefresh(r) ==
    /\ req[r].kind = "devices"
    /\ req[r].pc \in {"ensured", "done"}
    /\ req[r].ePasses = 1
    /\ req[r].eMgr # 0
    /\ heap[req[r].eMgr].built
    /\ req[r].enow - req[r].eLast < 60000

\* C5: two concurrent non-forced calls inside the freshness window of a completed
\* refresh return the identical device set, and there is one discovery pass in all.
C5_SharedSnapshot ==
    /\ \A r \in Req :
          AfterOneRefresh(r) => req[r].started = 0 /\ req[r].mgr = req[r].eMgr
    /\ \A r1, r2 \in Req :
        r1 # r2 /\ AfterOneRefresh(r1) /\ AfterOneRefresh(r2) =>
            /\ req[r1].mgr = req[r2].mgr
            /\ heap[req[r1].mgr].Devices = heap[req[r2].mgr].Devices
            /\ req[r1].resp.status # "error" /\ req[r2].resp.status # "error"
            /\ passes = 1

C5_Witness ==
    /\ AfterOneRefresh("r1") /\ AfterOneRefresh("r2")
    /\ req["r1"].pc = "ensured" /\ req["r2"].pc = "ensured"
    /\ heap[req["r1"].mgr].Devices # << >>

\* C9: a non-forced call that finds a cached manager younger than 60 s returns
\* it and starts no discovery; every other call starts a discovery pass.
C9_FreshnessWindow ==
    \A r \in Req :
        RegistryCall(r) /\ req[r].pc # "idle" =>
            IF req[r].kind = "devices" /\ req[r].eMgr # 0
               /\ req[r].enow - req[r].eLast < 60000
            THEN /\ req[r].started = 0
                 /\ req[r].pc \in {"ensured", "done"}
                 /\ req[r].mgr = req[r].eMgr
            ELSE req[r].started = 1

\* the cache is served to one call while another, arriving 60 s after the
\* refresh, has started a new pass
C9_Witness ==
    \E r, q \in Req :
        /\ req[r].kind = "devices" /\ req[r].pc = "done"
        /\ req[r].started = 0 /\ req[r].mgr # 0 /\ heap[req[r].mgr].built
        /\ req[q].kind = "devices" /\ req[q].started = 1
        /\ req[q].eMgr # 0 /\ req[q].enow - req[q].eLast = 60000

----------------------------------------------------------------------------
(* Artwork cache: claims *)

\* two finished cacheArtwork calls with the same URI
SameUriCalls(r1, r2) ==
    /\ r1 # r2
    /\ req[r1].kind = "art" /\ req[r2].kind = "art"
    /\ req[r1].pc = "artDone" /\ req[r2].pc = "artDone"
    /\ StartsWithHttp(req[r1].cUri)
    /\ req[r1].cUri = req[r2].cUri

\* C2 as stated: two calls with the same URI, in sequence or overlapping, fetch
\* at most once in total and return the identical local path.
C2_AtMostOneFetch ==
    \A r1, r2 \in Req :
        SameUriCalls(r1, r2) =>
            /\ req[r1].fetched + req[r2].fetched <= 1
            /\ req[r1].cRet = req[r2].cRet

\* C2 amended: two calls with the same URI in sequence, the first of which
\* fetched the artwork and stored it, fetch exactly once in total and both
\* return the identical local path.
C2_SequentialOneFetch ==
    \A r1, r2 \in Req :
        SameUriCalls(r1, r2) /\ req[r1].wrote /\ r1 \in req[r2].prior =>
            /\ req[r1].fetched + req[r2].fetched = 1
            /\ req[r1].cRet = req[r2].cRet
            /\ req[r1].cRet = Local(Md5(CleanUri(req[r1].cUri)))

C2_Witness ==
    /\ SameUriCalls("r1", "r2")
    /\ req["r1"].wrote /\ "r1" \in req["r2"].prior
    /\ req["r2"].fetched = 0
    /\ req["r2"].cRet.t = "local"

----------------------------------------------------------------------------
(* Transport endpoints: claims *)

\* a finished play dispatch whose first Play failed with UPnPError 402
Recovered(r) ==
    /\ req[r].kind = "play"
    /\ req[r].pc = "done"
    /\ req[r].err = "UPnPError 402"

\* one rebind pass: SetAVTransportURI was sent once to each device of the set
OneRebindPass(r) == req[r].rebound = req[r].known /\ req[r].known # << >>

\* C3 as stated: after a first Play failing with UPnPError 402 there is one
\* rebind pass and one more Play; a successful retry answers ok, a failed retry
\* answers with the first error.
C3_RetryReturnsFirstError ==
    \A r \in Req :
        Recovered(r) =>
            /\ OneRebindPass(r)
            /\ req[r].plays = 2
            /\ IF req[r].err2 = ""
               THEN req[r].resp = OkResp
               ELSE req[r].resp = ErrResp(req[r].err)

\* C3 amended: after a first Play failing with UPnPError 402 there is one rebind
\* pass and one more Play and no third; a successful retry answers ok, a
\* failed retry answers with the error of the retry.
C3_RetryOnce ==
    \A r \in Req :
        Recovered(r) =>
            /\ OneRebindPass(r)
            /\ req[r].plays = 2
            /\ IF req[r].err2 = ""
               THEN req[r].resp = OkResp
               ELSE req[r].resp = ErrResp(req[r].err2)

C3_Witness ==
    \E r \in Req :
        /\ Recovered(r)
        /\ Len(req[r].rebound) = 2
        /\ req[r].err2 = "UPnPError 402"
        /\ req[r].resp.status = "error"

----------------------------------------------------------------------------
(* Group listing: claims *)

\* C1: every track of a group listing carries, after the artwork-cache stage,
\* an artwork that is null or a path of the local cache, never a remote http(s)
\* URL, also when the fetch inside cacheArtwork fails or throws.
C1_ArtworkLocalOrNull ==
    \A r \in Req : \A i \in 1..Len(req[r].results) :
        req[r].results[i].track.artwork.t \in {"null", "local"}

\* a listed track still carries the remote URL that cacheArtwork was given
C1_Witness ==
    \E r \in Req : \E i \in 1..Len(req[r].results) :
        /\ req[r].kind = "groups" /\ req[r].pc = "done"
        /\ req[r].results[i].track.artwork.t = "http"

\* the members of a listed group whose GetVolume returned
Answered(ms) == SelectSeq(ms, LAMBDA m : m.volume.set /\ ~m.volume.null)

RECURSIVE SumOf(_)
SumOf(ms) == IF ms = << >> THEN 0 ELSE Head(ms).volume.v + SumOf(Tail(ms))

\* q is the mean of the members' volumes rounded to the nearest integer, a
\* half rounded up
IsRoundedMean(q, ms) ==
    /\ 2 * Len(ms) * q <= 2 * SumOf(ms) + Len(ms)
    /\ 2 * SumOf(ms) + Len(ms) < 2 * Len(ms) * (q + 1)

\* C8: the average volume of every listed group is the rounded mean of the
\* volumes of exactly the members whose volume query succeeded, is 0 when none
\* succeeded, and lies in 0..100 when every reported volume does.
C8_AverageVolume ==
    \A r \in Req : \A i \in 1..Len(req[r].results) :
        LET g == req[r].results[i]
            ok == Answered(g.members)
        IN  /\ IF ok = << >> THEN g.avgVolume = 0 ELSE IsRoundedMean(g.avgVolume, ok)
            /\ (\A j \in 1..Len(ok) : ok[j].volume.v \in 0..100) => g.avgVolume \in 0..100

\* a listed group of two members, one whose query failed and one that answered,
\* with the volume of the one that answered as its average
C8_Witness ==
    \E r \in Req : \E i \in 1..Len(req[r].results) :
        LET g == req[r].results[i]
        IN  /\ Len(g.members) = 2
            /\ g.members[1].volume.null
            /\ g.members[2].volume.set /\ ~g.members[2].volume.null
            /\ g.avgVolume = g.members[2].volume.v
            /\ g.avgVolume > 0

\* the ids of the devices registered in the device set a listing uses
Registered(r) ==
    IF req[r].gmgr = 0 THEN {}
    ELSE {heap[req[r].gmgr].Devices[i].Uuid :
              i \in 1..Len(heap[req[r].gmgr].Devices)}

\* C10: every listed group has the id of a registered device as coordinator; a
\* topology entry whose coordinator is not registered is left out of the
\* result, with no error and no device query made for it.
C10_CoordinatorRegistered ==
    \A r \in Req :
        /\ \A i \in 1..Len(req[r].results) :
               req[r].results[i].coordinator \in Registered(r)
        /\ req[r].queried \subseteq Registered(r)
        /\ req[r].kind = "groups" /\ req[r].pc = "done" /\ req[r].groups # << >>
              => /\ req[r].resp = OkResp
                 /\ {req[r].results[i].coordinator : i \in 1..Len(req[r].results)}
                      = {req[r].groups[i].coord : i \in 1..Len(req[r].groups)}
                            \cap Registered(r)

\* a listing has answered with a group, and has left out an entry of the
\* topology whose coordinator is not registered
C10_Witness ==
    \E r \in Req :
        /\ req[r].kind = "groups" /\ req[r].pc = "done" /\ req[r].resp = OkResp
        /\ Len(req[r].results) > 0
        /\ \E i \in 1..Len(req[r].groups) :
               /\ req[r].groups[i].coord \notin Registered(r)
               /\ req[r].groups[i].coord \notin req[r].queried

----------------------------------------------------------------------------
(* Volume: claims *)

\* a level that is not a number, or a number outside 0..100
Invalid(level) ==
    \/ level.k \in {"word", "empty"}
    \/ level.k = "numeral" /\ (level.n < 0 \/ level.n > 100)

\* C6: a volume request whose level is outside 0..100 or is not a number is
\* answered with an error, and SetVolume is invoked on no device.
C6_InvalidLevelRejected ==
    \A r \in Req :
        req[r].kind = "volume" /\ Invalid(req[r].level)
            => /\ req[r].io["setVolume"] = 0
               /\ req[r].pc = "done" => req[r].resp.status = "error"

\* C7: when the level of a volume request is out of range, no discovery and no
\* topology, playback or volume call is made before the request is rejected.
C7_RangeCheckFirst ==
    \A r \in Req :
        /\ req[r].kind = "volume"
        /\ req[r].level.k = "numeral"
        /\ (req[r].level.n < 0 \/ req[r].level.n > 100)
        => /\ req[r].started = 0
           /\ \A k \in IoKinds : req[r].io[k] = 0

\* what line 527 does guard: a level that Number turns into NaN or into a
\* number outside 0..100 is answered with an error and reaches no SetVolume
RangeCheckGuardsSetVolume ==
    \A r \in Req :
        /\ req[r].kind = "volume"
        /\ req[r].level.k # "undefined"
        /\ OutOfRange(NumberOf(req[r].level))
        => /\ req[r].io["setVolume"] = 0
           /\ req[r].pc = "done" => req[r].resp.status = "error"

\* a request with the level "" has been answered without an error after
\* SetVolume was invoked
C6_Witness ==
    \E r \in Req :
        /\ req[r].kind = "volume" /\ req[r].level.k = "empty"
        /\ req[r].pc = "done" /\ req[r].resp = OkResp
        /\ req[r].io["setVolume"] > 0

\* a request with the level 150 is rejected by the range check after discovery,
\* topology, playback and volume calls
C7_Witness ==
    \E r \in Req :
        /\ req[r].kind = "volume" /\ req[r].level = Numeral(150)
        /\ req[r].pc = "done" /\ req[r].resp = ErrResp("Volume must be 0-100")
        /\ req[r].started = 1
        /\ req[r].io["topology"] > 0 /\ req[r].io["position"] > 0
        /\ req[r].io["getVolume"] > 0 /\ req[r].io["setVolume"] = 0

----------------------------------------------------------------------------
(* Transport: unknown coordinator *)

\* the dispatch has looked its group id up in the devices of its manager and
\* found no device with that Uuid
UnknownCoordinator(r) ==
    /\ req[r].kind \in Endpoints
    /\ req[r].groupId # ""
    /\ req[r].mgr # 0
    /\ req[r].pc # "ensured"
    /\ \A i \in 1..Len(heap[req[r].mgr].Devices) :
           heap[req[r].mgr].Devices[i].Uuid # req[r].groupId

\* C11: a play, pause, next or previous dispatch whose group id matches no
\* registered device is answered with the not-found error, and no transport
\* action and no rebind is invoked on any device.
C11_UnknownCoordinatorRejected ==
    \A r \in Req :
        UnknownCoordinator(r)
            => /\ req[r].pc = "done"
               /\ req[r].resp = ErrResp("Coordinator not found")
               /\ req[r].plays = 0 /\ req[r].others = 0
               /\ req[r].rebound = << >>

\* a dispatch for a group id that none of the registered devices has
C11_Witness ==
    \E r \in Req :
        /\ UnknownCoordinator(r)
        /\ Len(heap[req[r].mgr].Devices) > 0
        /\ req[r].groupId = "RINCON_X"
        /\ req[r].pc = "done"

----------------------------------------------------------------------------
(* Group listing: failures of single devices *)

\* C12: in a group listing no failing or malformed reply of a single device, to
\* the topology query, to the playback queries of a coordinator or to the
\* volume query of a member, makes the listing answer with an error.
C12_DeviceFailuresIsolated ==
    \A r \in Req :
        /\ req[r].kind = "groups"
        /\ req[r].io["topology"] > 0
        /\ req[r].pc = "done"
        => req[r].resp = OkResp

\* a listing has answered with an error after the reply of one device to the
\* topology query did not parse
C12_Witness ==
    \E r \in Req :
        /\ req[r].kind = "groups" /\ req[r].pc = "done"
        /\ req[r].io["topology"] = 1
        /\ Len(heap[req[r].gmgr].Devices) = 2
        /\ req[r].resp = ErrResp("topology does not parse")

----------------------------------------------------------------------------
(* Group listing: topology resolution *)

\* C13: the devices are asked for the topology one at a time in the order of
\* the registry; the first reply that holds a topology state ends the asking;
\* when no reply holds one, the listing is the empty list and no error.
C13_TopologyFirstSuccess ==
    \A r \in Req :
        req[r].gmgr # 0 =>
            LET devs == heap[req[r].gmgr].Devices
                rq == req[r]
            IN  /\ Len(rq.asked) <= Len(devs)
                /\ \A j \in 1..Len(rq.asked) : rq.asked[j] = devs[j].Host
                /\ rq.io["topology"] = Len(rq.asked)
                /\ rq.got # 0 => Len(rq.asked) = rq.got
                /\ rq.pc = "topology" => rq.got = 0
                /\ rq.kind = "groups" /\ rq.pc = "done" /\ rq.got = 0
                      => /\ rq.resp = OkResp
                         /\ rq.results = << >>
                         /\ Len(rq.asked) = Len(devs)

\* a listing is done for which the first device gave no topology state and the
\* second did
C13_Witness ==
    \E r \in Req :
        /\ req[r].kind = "groups" /\ req[r].pc = "done" /\ req[r].resp = OkResp
        /\ req[r].got = 2
        /\ req[r].asked = <<D1.Host, D2.Host>>
        /\ Len(req[r].results) > 0

\* a listing is done for which neither of two devices gave a topology state
C13_WitnessNone ==
    \E r \in Req :
        /\ req[r].kind = "groups" /\ req[r].pc = "done" /\ req[r].resp = OkResp
        /\ req[r].got = 0 /\ Len(req[r].asked) = 2
        /\ req[r].results = << >>

----------------------------------------------------------------------------
(* Group listing: the stages of a track *)

\* the oEmbed reply with a thumbnail and the title "Song - topic"
SongTopic ==
    [thumbnail_url |-> Http("i.scdn.co", "/image/ab67", "plain"),
     title |-> <<"Song", " - topic">>]

\* the group in hand of r has been through the artwork cache, with a Spotify
\* track that had no artwork before the oEmbed stage, and oEmbed answered
Enriched(r) ==
    /\ req[r].trail["2G"].out = "ok"
    /\ Includes(req[r].track.uri, <<"spotify", ":track:">>)
    /\ ~HasArt(req[r].trail["2C"].track.artwork)
    /\ req[r].trail["2D"].out = "ok"
    /\ req[r].trail["2D"].reply = SongTopic

\* C14: a streaming-service track without artwork from the device stages, and
\* an enrichment reply with thumbnail_url and the title "Song - topic", resolve
\* to the title "Song" and to the local cache path of thumbnail_url; a failing
\* enrichment leaves the track as it was.
C14_Enrichment ==
    \A r \in Req :
        /\ Enriched(r)
              => /\ req[r].track.title = "Song"
                 /\ req[r].track.artwork = Local(Md5(CleanUri(SongTopic.thumbnail_url)))
        /\ req[r].trail["2D"].out = "failed"
              => req[r].trail["2D"].track = req[r].trail["2C"].track

\* what the oEmbed stage does: the thumbnail becomes the artwork, the title is
\* filled with "Song" if there was none, a failure changes nothing; the cache
\* stage then leaves either the local path or the thumbnail URL itself
EnrichmentFillsEmpty ==
    \A r \in Req :
        LET t == req[r].trail
        IN  /\ t["2D"].out = "ok" /\ t["2D"].reply = SongTopic
                  => /\ t["2D"].track.artwork = SongTopic.thumbnail_url
                     /\ t["2D"].track.title =
                            IF t["2C"].track.title # "" THEN t["2C"].track.title
                            ELSE "Song"
            /\ t["2D"].out = "failed" => t["2D"].track = t["2C"].track
            /\ Enriched(r) =>
                  req[r].track.artwork \in
                      {Local(Md5(CleanUri(SongTopic.thumbnail_url))),
                       SongTopic.thumbnail_url}

\* an enriched track whose artwork is still the remote thumbnail URL, because
\* the fetch of the artwork cache threw
C14_Witness ==
    \E r \in Req :
        /\ Enriched(r)
        /\ req[r].track.title = "Song"
        /\ req[r].track.artwork = SongTopic.thumbnail_url
        /\ req[r].fetched = 1 /\ ~req[r].wrote

----------------------------------------------------------------------------
(* Device registry: what a refresh leaves *)

\* the call of r has started a pass and that pass has completed
Refreshed(r) ==
    /\ req[r].started = 1
    /\ req[r].pc \in {"ensured", "done"}
    /\ req[r].mgr # 0
    /\ req[r].fPasses > 0

HostSet(seq) == {seq[i] : i \in 1..Len(seq)}

\* C15: after a completed refresh the registry holds exactly the devices
\* discovered and successfully handshaken in that pass; a device of the
\* previous set that the pass did not find is gone, and nothing of the previous
\* set is carried over.
C15_RegistryReplaced ==
    \A r \in Req : Refreshed(r) => HostSet(req[r].final) = req[r].shaken

\* the same for a pass during which no other pass was under way
SequentialRefreshReplaces ==
    \A r \in Req :
        Refreshed(r) /\ ~req[r].overlap /\ req[r].fPasses = req[r].ePasses + 1
            => HostSet(req[r].final) = req[r].shaken

\* a refresh has completed with a registry that holds a device the pass did
\* not register
C15_Witness ==
    \E r \in Req :
        /\ Refreshed(r)
        /\ req[r].shaken = {}
        /\ req[r].final = <<D1.Host>>

\* a pass on its own has completed without a device that the previous registry
\* held
SequentialRefreshWitness ==
    \E r \in Req :
        /\ Refreshed(r) /\ ~req[r].overlap /\ req[r].fPasses = req[r].ePasses + 1
        /\ req[r].eMgr # 0
        /\ \E i \in 1..Len(heap[req[r].eMgr].Devices) :
               heap[req[r].eMgr].Devices[i].Host = D2.Host
        /\ req[r].final = <<D1.Host>>

\* C16: position info and transport info fail independently: when position
\* info fails, transport info is still asked for and its state reported; when
\* transport info fails, the URI and the metadata of the position info are
\* still used and only the state keeps its default.
C16_IndependentFailures ==
    \A r \in Req :
        LET a == req[r].trail["2A"]
        IN  /\ req[r].pc # "position" => req[r].io["transport"] = req[r].io["position"]
            /\ a.out = "transportThrew"
                  => /\ a.track.uri = a.reply.TrackURI
                     /\ a.track.title =
                            ParseTrackMeta(a.reply.TrackMetaData, req[r].chost).title
                     /\ a.state = "unknown"

\* transport info has failed after position info returned a URI and a title,
\* and the track has neither
C16_Witness ==
    \E r \in Req :
        LET a == req[r].trail["2A"]
        IN  /\ a.out = "transportThrew"
            /\ a.reply.TrackURI = U_Queue
            /\ a.reply.TrackMetaData.title = "Foo"
            /\ a.track.uri = U_Empty /\ a.track.title = ""

\* C17: for every coordinator of a listing media info is asked for, whether
\* position info and transport info succeeded or failed; a failure of media
\* info leaves the track as the earlier stage left it.
C17_MediaAlwaysAttempted ==
    \A r \in Req :
        LET t == req[r].trail
        IN  /\ req[r].pc \notin {"position", "transport"}
                  => req[r].io["media"] = Cardinality(req[r].queried)
            /\ t["2A"].out # "none" /\ req[r].pc # "media" => t["2B"].out # "none"
            /\ t["2B"].out = "threw" => t["2B"].track = t["2A"].track

\* media info has answered after transport info failed, and has failed after
\* position info gave a title
C17_Witness ==
    \E r \in Req :
        LET t == req[r].trail
        IN  /\ t["2A"].out = "ok" /\ t["2A"].track.title = "Foo"
            /\ t["2B"].out = "threw" /\ t["2B"].track.title = "Foo"
            /\ Len(req[r].results) = 1
            /\ req[r].io["position"] = 2 /\ req[r].io["transport"] = 1
            /\ req[r].io["media"] = 2

\* the fields of track t that hold a value
Filled(t) ==
    {f \in {"title", "artist", "album"} : t[f] # ""}
        \cup (IF HasArt(t.artwork) THEN {"artwork"} ELSE {})

\* C18: the media-info stage changes title, artist, album or artwork only if
\* the field was still empty after the position-info stage; a value from
\* position info is kept even when media info reports another.
C18_MediaFillsOnlyEmpty ==
    \A r \in Req :
        LET a == req[r].trail["2A"].track
            b == req[r].trail["2B"].track
        IN  req[r].trail["2B"].out # "none"
                => /\ a.title # "" => b.title = a.title
                   /\ a.artist # "" => b.artist = a.artist
                   /\ a.album # "" => b.album = a.album
                   /\ HasArt(a.artwork) => b.artwork = a.artwork

\* media info has replaced the title and the artwork that position info gave
C18_Witness ==
    \E r \in Req :
        LET a == req[r].trail["2A"].track
            b == req[r].trail["2B"].track
        IN  /\ req[r].trail["2B"].out = "ok"
            /\ a.title = "Foo" /\ b.title = "Media Title"
            /\ HasArt(a.artwork) /\ b.artwork = Http("cdn", "/a.jpg?s=1&t=2", "plain")
            /\ b.artist = "Bar"

\* the stages in the order they are gone through
StageOrder == <<"2A", "2B", "2C", "2D", "2E", "2G">>

\* C19: across the stages of one track resolution a title, artist, album or
\* artwork that holds a value never becomes empty in a later stage, also when
\* the query of that stage fails or returns empty metadata.
C19_FieldsNeverEmptied ==
    \A r \in Req : \A i \in 1..(Len(StageOrder) - 1) :
        LET x == req[r].trail[StageOrder[i]]
            y == req[r].trail[StageOrder[i + 1]]
        IN  y.out # "none"
                => /\ x.out # "none"
                   /\ Filled(x.track) \subseteq Filled(y.track)
                   /\ i + 1 = Len(StageOrder) => Filled(y.track) \subseteq Filled(req[r].track)

\* a track has gone through every stage, its media info and stream look-up
\* failing, and has kept the title of its position info and the placeholder
C19_Witness ==
    \E r \in Req :
        LET t == req[r].trail
        IN  /\ t["2A"].track.title = "Now Playing"
            /\ t["2B"].out = "threw"
            /\ t["2C"].out = "placeholder"
            /\ t["2E"].out = "failed"
            /\ t["2G"].out = "ok"
            /\ req[r].track.title = "Now Playing"
            /\ req[r].track.artwork = Placeholder

----------------------------------------------------------------------------
(* Group listing: member fallback *)

\* C20: when the position-info metadata of the coordinator has no title, the
\* members of the group are asked for their own position info one at a time in
\* the order of the topology; the metadata of the first member with a title is
\* used, the members after it are not asked, and a member whose query fails is
\* passed over.
C20_MemberFallback ==
    \A r \in Req :
        LET a == req[r].trail["2A"]
        IN  /\ req[r].kind \in {"groups", "volume"}
            /\ a.out = "ok"
            /\ ParseTrackMeta(a.reply.TrackMetaData, req[r].chost).title = ""
            /\ req[r].trail["2B"].out # "none"
            => req[r].io["memberPosition"] > 0

\* the coordinator's position info had no title, the listing has gone on to the
\* later stages, and no member was asked
C20_Witness ==
    \E r \in Req :
        /\ req[r].kind = "groups"
        /\ req[r].trail["2A"].out = "ok"
        /\ req[r].trail["2A"].reply.TrackMetaData = DocAbsent
        /\ req[r].trail["2G"].out = "ok"
        /\ Len(req[r].members) = 2
        /\ req[r].track.title = ""
        /\ req[r].io["memberPosition"] = 0

\* src/sonosplayer.js does what C20 says: the members are asked in order, up to
\* and including the first whose metadata has a title, and that metadata is the
\* one merged into the track
LegacyMemberFallback ==
    \A r \in Req :
        LET rq == req[r]
        IN  rq.kind = "legacy" =>
              /\ Len(rq.masked) <= Len(rq.members)
              /\ \A j \in 1..Len(rq.masked) : rq.masked[j] = rq.members[j].host
              /\ rq.io["memberPosition"] = Len(rq.masked)
              /\ rq.mfound # 0 => Len(rq.masked) = rq.mfound
              /\ rq.pc = "legacyDone" /\ rq.mfound # 0
                    => rq.track.title = "Member Song" /\ rq.meta.title = "Member Song"
              /\ rq.pc = "legacyDone" /\ rq.io["transport"] = 1 /\ rq.state # "unknown"
                    /\ rq.mfound = 0 /\ rq.track.title = ""
                    => Len(rq.masked) = Len(rq.members)

\* the first member failed or had no title, the second had one
LegacyMemberFallbackWitness ==
    \E r \in Req :
        /\ req[r].kind = "legacy" /\ req[r].pc = "legacyDone"
        /\ req[r].mfound = 2 /\ Len(req[r].masked) = 2
        /\ req[r].track.title = "Member Song"

----------------------------------------------------------------------------
(* Source classification, lines 351-358, over URIs of up to three pieces *)

UriPieces == {"spotify", "mp3radio", "tunein", "x-rincon-", "live"}

SourceInputs ==
    {<< >>} \cup {<<a>> : a \in UriPieces}
            \cup {<<a, b>> : a \in UriPieces, b \in UriPieces}
            \cup {<<a, b, c>> : a \in UriPieces, b \in UriPieces, c \in UriPieces}

\* line 220, 231: a track whose uri is u reaches stage 2F
SourceEnter(r) ==
    /\ req[r].pc = "idle"
    /\ \E u \in SourceInputs :
          Set(r, [req[r] EXCEPT !.pc = "2F", !.kind = "source", !.track.uri = u])
    /\ UNCHANGED <<now, manager, lastDiscover, heap, files, passes>>

\* lines 351-358: track.source is assigned
SourceAssigned(r) ==
    /\ req[r].pc = "2F"
    /\ Set(r, [req[r] EXCEPT !.pc = "done",
                             !.track.source = Source(req[r].track.uri)])
    /\ UNCHANGED <<now, manager, lastDiscover, heap, files, passes>>

NextSource ==
    \E r \in Serial :
        \/ SourceEnter(r)
        \/ SourceAssigned(r)
        \/ Reset(r)

SpecSource == Init /\ [][NextSource]_vars

----------------------------------------------------------------------------
(* Transport: errors that are not recovered from *)

\* C21: when Play fails with an error other than UPnPError 402, the dispatch
\* answers with that error, rebinds no device and makes no second Play; it
\* never answers ok.
C21_OtherErrorsPropagate ==
    \A r \in Req :
        req[r].kind = "play" /\ req[r].err \notin {"", "UPnPError 402"}
            => /\ req[r].rebound = << >>
               /\ req[r].plays = 1
               /\ req[r].pc = "done"
               /\ req[r].resp = ErrResp(req[r].err)

\* the same for the first module of sonos-router.js, where it holds
FirstModulePlayPropagates ==
    \A r \in Req :
        req[r].kind = "play" /\ req[r].err \notin {"", "UPnPError 402"}
            => /\ req[r].rebound = << >> /\ req[r].plays = 1
               /\ req[r].pc = "done" /\ req[r].resp = ErrResp(req[r].err)

\* a play dispatch whose Play failed with UPnPError 701 has answered ok
C21_Witness ==
    \E r \in Req :
        /\ req[r].kind = "play" /\ req[r].pc = "done"
        /\ req[r].err = "UPnPError 701"
        /\ req[r].plays = 1
        /\ req[r].resp = OkResp

\* C22: a pause, next or previous dispatch invokes its action on the
\* coordinator once and never again; whatever error the action throws,
\* UPnPError 402 included, no device is rebound, no Play is made, and the
\* error is the answer.
C22_SingleShot ==
    \A r \in Req :
        req[r].kind \in Endpoints \ {"play"}
            => /\ req[r].others <= 1
               /\ req[r].plays = 0
               /\ req[r].rebound = << >>
               /\ req[r].err # ""
                    => /\ req[r].others = 1
                       /\ req[r].pc = "done"
                       /\ req[r].resp = ErrResp(req[r].err)
               /\ req[r].pc = "done" /\ req[r].resp = OkResp
                    => req[r].others = 1

\* a pause, next or previous dispatch has failed with UPnPError 402 and
\* answered with it after one call
C22_Witness ==
    \E r \in Req :
        /\ req[r].kind \in Endpoints \ {"play"}
        /\ req[r].pc = "done"
        /\ req[r].others = 1
        /\ req[r].err = "UPnPError 402"
        /\ req[r].resp = ErrResp("UPnPError 402")

----------------------------------------------------------------------------
(* Source classification: claims *)

\* the streaming-service pattern and the radio-stream patterns
IsStreaming(u) == \E i \in 1..Len(u) : u[i] = "spotify"
IsRadio(u) == \E i \in 1..Len(u) : u[i] \in {"mp3radio", "tunein"}

\* C23: source is the label of the first matching predicate in the order
\* streaming service, radio stream, queue: a URI matching both a streaming
\* and a radio pattern is streaming, a URI matching neither (the empty URI
\* too) gets the queue label, and source is always assigned.
C23_SourceOrder ==
    \A r \in Req :
        req[r].kind = "source" /\ req[r].pc = "done"
            => LET u == req[r].track.uri
                   s == req[r].track.source
               IN  /\ s \in {"Spotify", "MP3 Radio", "TuneIn", "Sonos Queue"}
                   /\ IsStreaming(u) => s = "Spotify"
                   /\ ~IsStreaming(u) /\ IsRadio(u) => s \in {"MP3 Radio", "TuneIn"}
                   /\ ~IsStreaming(u) /\ ~IsRadio(u) => s = "Sonos Queue"

\* a URI with a radio piece before a streaming piece has been classified
C23_Witness ==
    \E r \in Req :
        /\ req[r].kind = "source" /\ req[r].pc = "done"
        /\ req[r].track.uri = <<"x-rincon-", "mp3radio", "spotify">>
        /\ req[r].track.source = "Spotify"

\* the empty URI has been given the queue label
C23_WitnessEmpty ==
    \E r \in Req :
        /\ req[r].kind = "source" /\ req[r].pc = "done"
        /\ req[r].track.uri = << >>
        /\ req[r].track.source = "Sonos Queue"

----------------------------------------------------------------------------
(* Artwork cache: failed fetches *)

\* a finished cacheArtwork call that fetched and stored nothing: the fetch
\* threw, the response was not ok, or reading the body threw
FetchFailed(q) ==
    /\ req[q].kind = "art" /\ req[q].pc = "artDone"
    /\ req[q].fetched = 1 /\ ~req[q].wrote

\* r was called after q had returned, with the same URI
CalledAfter(r, q) ==
    /\ req[r].kind = "art" /\ req[q].kind = "art"
    /\ q \in req[r].prior
    /\ req[r].cUri = req[q].cUri

\* C24: a failed artwork fetch is not remembered: every cache file was
\* written by a call whose fetch succeeded, and a call that follows a failed
\* call with the same URI fetches again; a call that follows a successful
\* fetch of its URI does not fetch.
C24_FailureNotRemembered ==
    /\ \A h \in files : \E p \in Req : req[p].wrote /\ req[p].cHash = h
    /\ \A r, q \in Req :
          /\ FetchFailed(q) /\ CalledAfter(r, q) => req[r].fetched = 1
          /\ req[q].pc = "artDone" /\ req[q].wrote /\ CalledAfter(r, q)
                => req[r].fetched = 0

\* a call has followed a call with the same URI whose response was not ok,
\* and has fetched again
C24_Witness ==
    \E r, q \in Req :
        /\ FetchFailed(q) /\ CalledAfter(r, q)
        /\ req[q].cRet.t = "local"
        /\ req[r].fetched = 1
        /\ req[r].cHash \notin files

\* a call has followed a call with the same URI whose fetch threw
C24_WitnessThrown ==
    \E r, q \in Req :
        /\ FetchFailed(q) /\ CalledAfter(r, q)
        /\ req[q].cRet = ArtNull
        /\ req[r].fetched = 1

----------------------------------------------------------------------------
(* Device registry: handshakes *)

\* the devices registered on each manager object
Registry(h) == [m \in 1..Len(h) |-> h[m].Devices]

\* one handshake of request r ends in this step
HandshakeEnds(r) == req[r].pc = "handshake" /\ req'[r] # req[r]

\* the handshake that ends in this step has thrown
HandshakeThrew(r) == HandshakeEnds(r) /\ req'[r].shaken = req[r].shaken

\* C25: in a registry build a handshake that throws excludes only its own
\* device: nothing is registered for it, the call is not rejected, the
\* handshakes of the devices discovered after it follow one by one, and
\* after the last of them the call returns with the freshness timestamp set.
C25_HandshakeFailureExcluded ==
    [][\A r \in Req :
          HandshakeEnds(r) =>
              /\ HandshakeThrew(r) => Registry(heap') = Registry(heap)
              /\ ~HandshakeThrew(r) =>
                    /\ req'[r].shaken = req[r].shaken \cup {Head(req[r].todo)}
                    /\ \E i \in 1..Len(heap'[req[r].target].Devices) :
                          heap'[req[r].target].Devices[i].Host = Head(req[r].todo)
              /\ Tail(req[r].todo) # << >> =>
                    /\ req'[r].pc = "handshake"
                    /\ req'[r].todo = Tail(req[r].todo)
              /\ Tail(req[r].todo) = << >> =>
                    /\ req'[r].pc = "ensured"
                    /\ req'[r].mgr = manager
                    /\ heap'[manager].built
                    /\ lastDiscover' = req[r].enow]_vars

\* a build on its own has completed in which the handshake of the first of
\* two discovered devices threw: the second one is registered and the
\* timestamp is that of the call
C25_Witness ==
    \E r \in Req :
        /\ req[r].pc = "ensured" /\ req[r].started = 1 /\ ~req[r].overlap
        /\ req[r].fPasses = req[r].ePasses + 1
        /\ req[r].shaken = {D2.Host}
        /\ req[r].final = <<D2.Host>>
        /\ lastDiscover = req[r].enow

----------------------------------------------------------------------------
(* Device registry: what a call can be handed *)

\* the call of r was served from the cache: it was not forced and has
\* returned without starting a pass
ServedFromCache(r) ==
    /\ req[r].kind = "devices"
    /\ req[r].pc = "ensured"
    /\ req[r].started = 0

\* C26: in any interleaving of forced refreshes with non-forced calls, a
\* non-forced call never returns a manager whose discovery pass and
\* handshakes have not completed.
C26_NeverHalfBuilt ==
    \A r \in Req : ServedFromCache(r) => heap[req[r].mgr].built

\* a non-forced call has returned the manager of a refresh whose discovery is
\* still under way: no device is registered on it, while the manager it
\* replaced holds one
C26_Witness ==
    \E r, q \in Req :
        /\ ServedFromCache(r)
        /\ req[q].kind = "discover" /\ req[q].pc = "discovering"
        /\ req[r].mgr = req[q].own
        /\ ~heap[req[r].mgr].built
        /\ heap[req[r].mgr].Devices = << >>
        /\ req[q].eMgr # 0
        /\ heap[req[q].eMgr].built
        /\ heap[req[q].eMgr].Devices # << >>

\* the call of r started a pass, on its own, whose discovery failed, and no
\* pass has been started since
FailedAlone(r) ==
    /\ RegistryCall(r)
    /\ req[r].pc = "done"
    /\ req[r].started = 1
    /\ req[r].resp.msg = "discovery failed"
    /\ ~req[r].overlap
    /\ passes = req[r].ePasses + 1

\* C27: a discovery pass that fails leaves the registry as it was: the manager
\* and the freshness timestamp are those from before the call, and a later
\* non-forced call inside the old freshness window returns the manager that
\* was built before.
C27_FailedPassChangesNothing ==
    \A r \in Req :
        FailedAlone(r) =>
            /\ manager = req[r].eMgr
            /\ lastDiscover = req[r].eLast
            /\ \A q \in Req :
                  ServedFromCache(q) /\ req[q].eLast = req[r].eLast
                      => req[q].mgr = req[r].eMgr

\* after a refresh failed, a non-forced call inside the freshness window of
\* the previous build has returned the empty manager of the failed pass
C27_Witness ==
    \E r, q \in Req :
        /\ FailedAlone(r)
        /\ req[r].eMgr # 0
        /\ heap[req[r].eMgr].built
        /\ heap[req[r].eMgr].Devices # << >>
        /\ ServedFromCache(q)
        /\ req[q].eMgr = req[r].own
        /\ req[q].mgr = req[r].own
        /\ req[q].enow - req[q].eLast < FreshWindow
        /\ heap[req[q].mgr].Devices = << >>
        /\ ~heap[req[q].mgr].built

----------------------------------------------------------------------------
(* Group listing: the device set it works on *)

\* the listing of r has a group in hand
GroupInHand(r) == req[r].kind = "groups" /\ req[r].inBuild /\ req[r].gi > 0

\* C28: within one group listing the coordinator of every group taken in
\* hand and the device of every member asked for its volume are devices of
\* the manager that ensureManager returned at the start of the listing, also
\* when a concurrent refresh has replaced the registry since.
C28_OneDeviceSet ==
    \A r \in Req :
        GroupInHand(r) =>
            LET devs == heap[req[r].gmgr].Devices
                c == FindUuid(devs, req[r].groups[req[r].gi].coord)
            IN  /\ req[r].gmgr = req[r].mgr
                /\ c # 0
                /\ req[r].chost = devs[c].Host
                /\ req[r].pc = "getVolume"
                      => FindHost(devs, req[r].members[req[r].mi].host) # 0
                /\ \A m \in 1..Len(req[r].members) :
                      req[r].members[m].volume.set
                          => FindHost(devs, req[r].members[m].host) # 0

\* a listing has come to the volumes of a group of two members after a
\* refresh replaced the registry by one that holds both devices; its own
\* device set holds one, and the other member has been skipped
C28_Witness ==
    \E r \in Req :
        /\ GroupInHand(r)
        /\ req[r].pc = "getVolume"
        /\ manager # 0
        /\ manager # req[r].gmgr
        /\ heap[manager].built
        /\ Len(heap[manager].Devices) = Cardinality(Devs)
        /\ Len(heap[req[r].gmgr].Devices) < Cardinality(Devs)
        /\ Len(req[r].members) = Cardinality(Devs)
        /\ req[r].members[req[r].mi].host = heap[req[r].gmgr].Devices[1].Host

----------------------------------------------------------------------------
(* Artwork cache: what a returned path stands for *)

\* C29: whenever cacheArtwork returns a local path, the cache file of that
\* path is on disk: the file was there already or the call has fetched and
\* written it; a response that is not ok yields null.
C29_PathMeansFile ==
    \A r \in Req :
        req[r].kind = "art" /\ req[r].pc = "artDone" /\ req[r].cRet # ArtNull
            => /\ req[r].cRet = Local(req[r].cHash)
               /\ req[r].cHash \in files
               /\ req[r].fetched = 1 => req[r].wrote

\* a call whose fetch was answered with a response that is not ok has
\* returned the path of a file that is not there
C29_Witness ==
    \E r \in Req :
        /\ req[r].kind = "art" /\ req[r].pc = "artDone"
        /\ req[r].fetched = 1 /\ ~req[r].wrote
        /\ req[r].cRet = Local(req[r].cHash)
        /\ req[r].cHash \notin files

----------------------------------------------------------------------------
(* Group listing: artwork in the stream stage *)

\* C30: the stream stage leaves artwork alone that an earlier stage has set
\* to anything but the radio placeholder, for every URI the stage applies to,
\* the aac:// URIs whose media info carries no album art included; only
\* absent or placeholder artwork is replaced.
C30_StreamKeepsArtwork ==
    \A r \in Req :
        LET d == req[r].trail["2D"].track
            e == req[r].trail["2E"].track
        IN  (/\ req[r].trail["2E"].out # "none"
             /\ HasArt(d.artwork)
             /\ d.artwork # Placeholder)
                => e.artwork = d.artwork

\* the stream stage of an aac:// stream, its media info without album art,
\* has replaced the artwork that position info gave by the getaa URL
C30_Witness ==
    \E r \in Req :
        LET d == req[r].trail["2D"].track
            e == req[r].trail["2E"].track
        IN  /\ req[r].trail["2E"].out = "ok"
            /\ req[r].trail["2E"].reply = Didl("", "Radio One", "", "", ArtNull)
            /\ d.uri = U_Aac
            /\ d.artwork = Http("cdn", "/logo.png?a=1&b=2", "amp")
            /\ e.artwork = Http(req[r].chost \o ":1400",
                                "/getaa?s=1&u=" \o Text(U_Aac), "pct")

====
